---- MODULE Spec2Model ----
(***************************************************************************)
(* Model of BkamTreasuryCurve (src/src/modules/bkam_treasury_official.py): *)
(* ingestion of the BKAM reference-rate CSV (load_from_csv) and the yield  *)
(* curve queries (linear_interpolation, get_rate_for_maturity,             *)
(* get_standard_maturities).                                               *)
(*                                                                         *)
(* Representation.                                                         *)
(*  - Text is a sequence of one-character strings, so that split, strip    *)
(*    and replace are computed character by character as Python does.      *)
(*  - A rate (a Python float) is an integer count of 1/RateScale percent;  *)
(*    arithmetic on rates is exact rational arithmetic, and round(x, 4) is *)
(*    round-half-even of the exact value (binary floating-point error is   *)
(*    not modelled).                                                       *)
(*  - A date is its proleptic Gregorian ordinal (date.toordinal()).        *)
(*  - An Optional[float] is a set: {} is None, {v} is the value v.         *)
(*  - A Python dict is a record; "**metadata" is the function merge @@.    *)
(*    The 'formula' text of the interpolation metadata is left out: it     *)
(*    only formats values the record already holds.                        *)
(*  - The French messages are written without accents ("Donnees            *)
(*    insuffisantes" is the message of line 144).                          *)
(*  - An exception that escapes a call is recorded in last_call.exc.       *)
(***************************************************************************)
EXTENDS Integers, Sequences, FiniteSets, TLC

\* The curve object: BkamTreasuryCurve.
VARIABLES csv_content, reference_date, treasury_data, loaded, last_call

\* The batch: the entry point that runs and its environment (the credentials
\* file, what the treasury downloads and the other modules meet), the clock,
\* the worksheet, the files of data/, and the position and locals of main.
VARIABLES program, credentials, download, others, now, worksheet, files,
          pc, raw_data, errors, attempted, processed_data, export_success,
          caught, main_ret, last_export, runs

curve_vars == <<csv_content, reference_date, treasury_data, loaded, last_call>>

batch_env == <<program, credentials, download, others>>

main_locals == <<raw_data, errors, attempted, processed_data, export_success, caught, main_ret>>

batch_vars == <<batch_env, now, worksheet, files, pc, main_locals, last_export, runs>>

\* fetch_url of utils/scraper_utils.py: its arguments retries and delay,
\* whether create_scraper works, the loop variable, the response at hand,
\* the requests and sleeps made so far, the position in the function, and
\* what it returned or raised.
VARIABLES retries, delay, scraper, attempt, response, trace, fetch_pc,
          fetch_ret, fetch_exc

fetch_vars == <<retries, delay, scraper, attempt, response, trace, fetch_pc,
                fetch_ret, fetch_exc>>

\* get_bkam_forex_rates of modules/bkam_forex.py: what requests.get meets,
\* what pd.read_csv makes of the saved file, and what the call returned.
VARIABLES forex_http, forex_frame, forex_ret

forex_vars == <<forex_http, forex_frame, forex_ret>>

\* collect_data of modules/yahoo_markets.py: what yfinance has for each
\* symbol and what the Investing.com pages give, the position in the loop
\* over assets, results and successful, the calls made so far, and what was
\* returned.
VARIABLES yfinance, investing, yahoo_pc, asset_index, yahoo_results, successful,
          consulted, yahoo_ret

yahoo_vars == <<yfinance, investing, yahoo_pc, asset_index, yahoo_results, successful,
                consulted, yahoo_ret>>

\* main of scheduler.py: the clock in minutes since midnight of the day the
\* scheduler starts, where main stands, the job's next_run, and the runs of
\* run_finance_bladi so far.
VARIABLES clock, sched_pc, next_run, run_log

sched_vars == <<clock, sched_pc, next_run, run_log>>

other_vars == <<forex_vars, yahoo_vars, sched_vars>>

vars == <<curve_vars, batch_vars, fetch_vars, other_vars>>

(***************************************************************************)
(* Bounds of the model.                                                    *)
(***************************************************************************)
\* Largest number of data lines (after the two header lines) of a CSV.
MaxRows == 3

\* Number of fractional decimal digits a modelled rate carries: the input
\* rates have 3, a rounded result has 4.
RateDigits == 4

(***************************************************************************)
(* Text helpers: str.strip, str.split, str.replace, str.startswith.        *)
(***************************************************************************)
Digits == {"0", "1", "2", "3", "4", "5", "6", "7", "8", "9"}

DigitVal(c) ==
    CASE c = "0" -> 0 [] c = "1" -> 1 [] c = "2" -> 2 [] c = "3" -> 3
      [] c = "4" -> 4 [] c = "5" -> 5 [] c = "6" -> 6 [] c = "7" -> 7
      [] c = "8" -> 8 [] c = "9" -> 9

\* The characters str.strip() removes (the input alphabet has no tab).
Whitespace == {" ", "\n"}

RECURSIVE LStrip(_, _)
LStrip(s, cs) ==
    IF s # <<>> /\ Head(s) \in cs THEN LStrip(Tail(s), cs) ELSE s

RECURSIVE RStrip(_, _)
RStrip(s, cs) ==
    IF s # <<>> /\ s[Len(s)] \in cs THEN RStrip(SubSeq(s, 1, Len(s) - 1), cs) ELSE s

\* s.strip(cs)
StripChars(s, cs) == RStrip(LStrip(s, cs), cs)

\* s.strip()
Strip(s) == StripChars(s, Whitespace)

\* s.split(sep) for a one-character separator: the parts between the
\* occurrences of sep, always at least one part.
Split(s, sep) ==
    LET at == {i \in 1..Len(s) : s[i] = sep}
        n == Cardinality(at)
        pos(k) == CHOOSE i \in at : Cardinality({j \in at : j < i}) = k - 1
    IN [k \in 1..(n + 1) |->
           SubSeq(s, IF k = 1 THEN 1 ELSE pos(k - 1) + 1,
                     IF k = n + 1 THEN Len(s) ELSE pos(k) - 1)]

\* s.replace(old, new) for a one-character old and a new of length 0 or 1.
Replace(s, old, new) ==
    IF new = <<>> THEN SelectSeq(s, LAMBDA c : c # old)
    ELSE [i \in 1..Len(s) |-> IF s[i] = old THEN new[1] ELSE s[i]]

\* s.startswith(prefix)
StartsWith(s, prefix) ==
    Len(s) >= Len(prefix) /\ SubSeq(s, 1, Len(prefix)) = prefix

AllDigits(s) == \A i \in 1..Len(s) : s[i] \in Digits

RECURSIVE Number(_)
Number(s) == IF s = <<>> THEN 0 ELSE 10 * Number(SubSeq(s, 1, Len(s) - 1)) + DigitVal(s[Len(s)])

(***************************************************************************)
(* Dates: dt.strptime(text, '%d/%m/%Y').date() and date subtraction.       *)
(***************************************************************************)
IsLeap(y) == y % 4 = 0 /\ (y % 100 # 0 \/ y % 400 = 0)

DaysInMonth(y, m) ==
    IF m = 2 THEN (IF IsLeap(y) THEN 29 ELSE 28)
    ELSE IF m \in {4, 6, 9, 11} THEN 30 ELSE 31

RECURSIVE DaysBeforeMonth(_, _)
DaysBeforeMonth(y, m) ==
    IF m = 1 THEN 0 ELSE DaysBeforeMonth(y, m - 1) + DaysInMonth(y, m - 1)

DaysBeforeYear(y) ==
    365 * (y - 1) + ((y - 1) \div 4) - ((y - 1) \div 100) + ((y - 1) \div 400)

\* date(y, m, d).toordinal()
Ordinal(y, m, d) == DaysBeforeYear(y) + DaysBeforeMonth(y, m) + d

\* The directive %d: one or two digits (or a space and a digit), 1..31.
DayField(s) ==
    \/ Len(s) = 1 /\ AllDigits(s) /\ Number(s) >= 1
    \/ Len(s) = 2 /\ AllDigits(s) /\ Number(s) \in 1..31
    \/ Len(s) = 2 /\ s[1] = " " /\ s[2] \in Digits /\ s[2] # "0"

\* The directive %m: one or two digits, 1..12.
MonthField(s) ==
    \/ Len(s) = 1 /\ AllDigits(s) /\ Number(s) >= 1
    \/ Len(s) = 2 /\ AllDigits(s) /\ Number(s) \in 1..12

\* The directive %Y: exactly four digits.
YearField(s) == Len(s) = 4 /\ AllDigits(s)

\* strptime(text, '%d/%m/%Y').date(): [ok |-> FALSE] stands for ValueError.
ParseDate(text) ==
    LET f == Split(text, "/") IN
    IF Len(f) # 3 \/ ~DayField(f[1]) \/ ~MonthField(f[2]) \/ ~YearField(f[3])
    THEN [ok |-> FALSE, ordinal |-> 0]
    ELSE LET d == Number(LStrip(f[1], {" "}))
             m == Number(f[2])
             y == Number(f[3])
         IN IF y < 1 \/ d > DaysInMonth(y, m)
            THEN [ok |-> FALSE, ordinal |-> 0]
            ELSE [ok |-> TRUE, ordinal |-> Ordinal(y, m, d)]

(***************************************************************************)
(* Rates: float(rate_str.replace('%', '').replace(',', '.').strip()).      *)
(***************************************************************************)
RECURSIVE Pow10(_)
Pow10(n) == IF n = 0 THEN 1 ELSE 10 * Pow10(n - 1)

\* Units per 1.0 of a rate.
RateScale == Pow10(RateDigits)

\* n / d as a count of 1/RateScale, for d a power of ten that divides
\* RateScale.
Percent(n, d) == n * (RateScale \div d)

\* The fractional digits f as a count of 1/RateScale (digits past RateDigits
\* are cut: the inputs of the model carry at most RateDigits of them).
FracValue(f) ==
    LET k == IF Len(f) < RateDigits THEN Len(f) ELSE RateDigits
    IN Number(SubSeq(f, 1, k)) * Pow10(RateDigits - k)

\* float(text) on the input alphabet (digits, sign, '.', space and
\* characters no float literal holds): [sign] digits ['.' [digits]] or
\* [sign] '.' digits, surrounding whitespace ignored. [ok |-> FALSE] stands
\* for ValueError.
ParseFloat(text) ==
    LET t == Strip(text)
        signed == t # <<>> /\ Head(t) \in {"+", "-"}
        body == IF signed THEN Tail(t) ELSE t
        f == Split(body, ".")
        ip == f[1]
        fp == IF Len(f) = 2 THEN f[2] ELSE <<>>
    IN IF Len(f) > 2 \/ ~AllDigits(ip) \/ ~AllDigits(fp) \/ Len(ip) + Len(fp) = 0
       THEN [ok |-> FALSE, value |-> 0]
       ELSE LET v == Number(ip) * RateScale + FracValue(fp)
            IN [ok |-> TRUE, value |-> IF signed /\ Head(t) = "-" THEN 0 - v ELSE v]

\* rate_clean = rate_str.replace('%', '').replace(',', '.').strip()
CleanRate(rate_str) == Strip(Replace(Replace(rate_str, "%", <<>>), ",", <<".">>))

ParseRate(rate_str) == ParseFloat(CleanRate(rate_str))

(***************************************************************************)
(* load_from_csv                                                           *)
(***************************************************************************)
\* days_to_maturity / 365.25, as the fraction <<numerator, denominator>>.
Years(days) == <<4 * days, 1461>>

\* 'Total'
TotalPrefix == <<"T", "o", "t", "a", "l">>

\* parts = [p.strip().strip('"') for p in line.split(';')]
RECURSIVE CleanParts(_)
CleanParts(ps) ==
    IF ps = <<>> THEN <<>>
    ELSE <<StripChars(Strip(Head(ps)), {"\""})>> \o CleanParts(Tail(ps))

Parts(line) == CleanParts(Split(line, ";"))

\* One pass of the loop body over a line: the points it appends to
\* treasury_data (none or one). A ValueError of float() or strptime() is
\* caught by the inner try and the line is skipped.
LinePoints(raw, ref) ==
    LET line == Strip(raw)
        parts == Parts(line)
        rate == ParseRate(parts[3])
        date == ParseDate(parts[1])
        days == date.ordinal - ref
    IN IF line = <<>> \/ StartsWith(line, TotalPrefix) THEN <<>>
       ELSE IF Len(parts) < 4 THEN <<>>
       ELSE IF ~rate.ok \/ ~date.ok THEN <<>>
       ELSE IF days < 0 THEN <<>>
       ELSE <<[maturity_date |-> date.ordinal,
               maturity_date_str |-> parts[1],
               days |-> days,
               years |-> Years(days),
               rate |-> rate.value]>>

\* Mutant of CollectPoints: the first line whose rate or date does not
\* parse ends the loop (the try around the loop instead of inside it).
RECURSIVE CollectPointsAborting(_, _)
CollectPointsAborting(lines, ref) ==
    IF lines = <<>> THEN <<>>
    ELSE LET line == Strip(Head(lines))
             parts == Parts(line)
             raises == /\ line # <<>>
                       /\ ~StartsWith(line, TotalPrefix)
                       /\ Len(parts) >= 4
                       /\ (~ParseRate(parts[3]).ok \/ ~ParseDate(parts[1]).ok)
         IN IF raises THEN <<>>
            ELSE LinePoints(Head(lines), ref) \o CollectPointsAborting(Tail(lines), ref)

RECURSIVE CollectPoints(_, _)
CollectPoints(lines, ref) ==
    IF lines = <<>> THEN <<>>
    ELSE LinePoints(Head(lines), ref) \o CollectPoints(Tail(lines), ref)

\* p placed after every point of the sorted sequence s whose day count is
\* not larger: list.sort is stable.
RECURSIVE InsertByDays(_, _)
InsertByDays(s, p) ==
    IF s = <<>> THEN <<p>>
    ELSE IF s[Len(s)].days <= p.days THEN Append(s, p)
    ELSE Append(InsertByDays(SubSeq(s, 1, Len(s) - 1), p), s[Len(s)])

\* Mutant of SortByDays: the points stay in the order of the file.
SortByDaysOmitted(s) == s

\* self.treasury_data.sort(key=lambda x: x['days'])
RECURSIVE SortByDays(_)
SortByDays(s) ==
    IF s = <<>> THEN <<>>
    ELSE InsertByDays(SortByDays(SubSeq(s, 1, Len(s) - 1)), s[Len(s)])

\* lines = csv_content.strip().split('\n')
Lines(content) == Split(Strip(content), "\n")

\* lines[2:]
DataLines(content) ==
    LET ls == Lines(content) IN SubSeq(ls, 3, Len(ls))

\* The value of self.treasury_data when load_from_csv returns, and what it
\* returns: False when no valid point remains ("Aucune donnee valide").
load_from_csv(content, ref) ==
    LET data == SortByDays(CollectPoints(DataLines(content), ref))
    IN [treasury_data |-> data, ret |-> data # <<>>]

(***************************************************************************)
(* linear_interpolation                                                    *)
(***************************************************************************)
\* round-half-even of n / d to an integer, d > 0 (Python's round).
RoundHalfEven(n, d) ==
    LET f == n \div d
        r == n - f * d
    IN IF 2 * r < d THEN f
       ELSE IF 2 * r > d THEN f + 1
       ELSE IF f % 2 = 0 THEN f ELSE f + 1

\* Mutant of Round: the digits past ndigits are cut instead of rounded.
RoundCut(num, den, ndigits) ==
    LET step == Pow10(RateDigits - ndigits)
    IN step * (num \div (den * step))

\* round(num / den, ndigits) of a rate num / den (in 1/RateScale, den > 0),
\* as a count of 1/RateScale.
Round(num, den, ndigits) ==
    LET step == Pow10(RateDigits - ndigits)
    IN step * RoundHalfEven(num, den * step)

\* Mutant of BracketIndex: the test is d1 <= target_days, without the upper
\* bound.
BracketIndexFirstBelow(data, target_days) ==
    LET hits == {i \in 1..(Len(data) - 1) : data[i].days <= target_days}
    IN IF hits = {} THEN 0 ELSE CHOOSE i \in hits : \A j \in hits : i <= j

\* The first index i of the loop "for i in range(len - 1)" at which
\* d1 <= target_days <= d2 holds; 0 when there is none.
\* Mutant of BracketIndex: both comparisons are strict, so that a target
\* equal to an inner point's day count is in no bracket.
BracketIndexStrict(data, target_days) ==
    LET hits == {i \in 1..(Len(data) - 1) :
                    data[i].days < target_days /\ target_days < data[i + 1].days}
    IN IF hits = {} THEN 0 ELSE CHOOSE i \in hits : \A j \in hits : i <= j

\* Mutant of BracketIndex: the index is one too far, so that the pair after
\* the bracketing one is used whenever there is one.
BracketIndexNextPair(data, target_days) ==
    LET hits == {i \in 1..(Len(data) - 1) :
                    data[i].days <= target_days /\ target_days <= data[i + 1].days}
        first == CHOOSE i \in hits : \A j \in hits : i <= j
    IN IF hits = {} THEN 0
       ELSE IF first + 1 <= Len(data) - 1 THEN first + 1 ELSE first

BracketIndex(data, target_days) ==
    LET hits == {i \in 1..(Len(data) - 1) :
                    data[i].days <= target_days /\ target_days <= data[i + 1].days}
    IN IF hits = {} THEN 0 ELSE CHOOSE i \in hits : \A j \in hits : i <= j

\* The three cases of linear_interpolation, for a curve that passed its
\* length check. [rate, meta] is the returned tuple; exc names the exception
\* that escapes instead ("none" when the call returns).
Interpolate(data, target_days) ==
    IF target_days <= data[1].days
    THEN [rate |-> {data[1].rate},
          meta |-> [method |-> "Premiere echeance",
                    point_used |-> data[1].maturity_date_str,
                    actual_days |-> data[1].days,
                    actual_years |-> data[1].years],
          exc |-> "none"]
    ELSE IF target_days >= data[Len(data)].days
    THEN [rate |-> {data[Len(data)].rate},
          meta |-> [method |-> "Derniere echeance",
                    point_used |-> data[Len(data)].maturity_date_str,
                    actual_days |-> data[Len(data)].days,
                    actual_years |-> data[Len(data)].years],
          exc |-> "none"]
    ELSE LET i == BracketIndex(data, target_days)
             d1 == data[i].days
             r1 == data[i].rate
             d2 == data[i + 1].days
             r2 == data[i + 1].rate
         IN IF i = 0
            THEN [rate |-> {}, meta |-> [error |-> "Point non trouve"], exc |-> "none"]
            ELSE IF d2 - d1 = 0
            THEN [rate |-> {}, meta |-> <<>>, exc |-> "ZeroDivisionError"]
            ELSE [rate |-> {Round(r1 * (d2 - d1) + (target_days - d1) * (r2 - r1),
                                  d2 - d1, 4)},
                  meta |-> [method |-> "Interpolation lineaire",
                            point_before |-> data[i].maturity_date_str,
                            point_after |-> data[i + 1].maturity_date_str,
                            rate_before |-> r1,
                            rate_after |-> r2,
                            days_before |-> d1,
                            days_after |-> d2,
                            actual_days |-> target_days,
                            actual_years |-> Years(target_days)],
                  exc |-> "none"]

\* Mutant of linear_interpolation: the length check is missing, so that an
\* empty curve fails on treasury_data[0] and a single point answers.
linear_interpolation_unchecked(data, target_days) ==
    IF Len(data) = 0
    THEN [rate |-> {}, meta |-> <<>>, exc |-> "IndexError"]
    ELSE Interpolate(data, target_days)

\* linear_interpolation(target_days): fewer than two points are
\* 'Donnees insuffisantes'.
linear_interpolation(data, target_days) ==
    IF Len(data) < 2
    THEN [rate |-> {}, meta |-> [error |-> "Donnees insuffisantes"], exc |-> "none"]
    ELSE Interpolate(data, target_days)

(***************************************************************************)
(* get_rate_for_maturity, get_standard_maturities                          *)
(***************************************************************************)
\* int(n / d): truncation toward zero, d > 0.
Trunc(n, d) == IF n >= 0 THEN n \div d ELSE 0 - ((0 - n) \div d)

\* Mutant of TargetDays: a year of 365 days.
TargetDays365(target_years) == Trunc(target_years[1] * 365, target_years[2])

\* Mutant of TargetDays: round() instead of int().
TargetDaysRounded(target_years) ==
    RoundHalfEven(target_years[1] * 1461, target_years[2] * 4)

\* int(target_years * 365.25) for target_years = <<numerator, denominator>>.
TargetDays(target_years) == Trunc(target_years[1] * 1461, target_years[2] * 4)

\* [ret, exc]: the returned dict, or the exception linear_interpolation let
\* escape.
get_rate_for_maturity(data, target_years) ==
    LET target_days == TargetDays(target_years)
        li == linear_interpolation(data, target_days)
    IN IF li.exc # "none" THEN [ret |-> <<>>, exc |-> li.exc]
       ELSE [ret |-> [target_years |-> target_years,
                      target_days |-> target_days,
                      rate |-> li.rate] @@ li.meta,
             exc |-> "none"]

\* standard_maturities = {'BT2Y': 2.0, 'BT5Y': 5.0, 'BT10Y': 10.0}
standard_maturities == [BT2Y |-> <<2, 1>>, BT5Y |-> <<5, 1>>, BT10Y |-> <<10, 1>>]

StandardKeys == <<"BT2Y", "BT5Y", "BT10Y">>

\* Mutant of get_standard_maturities: a tenor whose rate is absent is left
\* out of the results, as export_for_finance_bladi leaves it out.
get_standard_maturities_available(data) ==
    LET q == [k \in DOMAIN standard_maturities |->
                 get_rate_for_maturity(data, standard_maturities[k]).ret]
        keys == {k \in DOMAIN standard_maturities : q[k].rate # {}}
    IN [ret |-> [k \in keys |-> q[k]], exc |-> "none"]

get_standard_maturities(data) ==
    LET q == [k \in DOMAIN standard_maturities |->
                 get_rate_for_maturity(data, standard_maturities[k])]
        raised == {n \in 1..Len(StandardKeys) : q[StandardKeys[n]].exc # "none"}
    IN IF raised # {}
       THEN [ret |-> <<>>,
             exc |-> q[StandardKeys[CHOOSE n \in raised : \A m \in raised : n <= m]].exc]
       ELSE [ret |-> [k \in DOMAIN standard_maturities |-> q[k].ret], exc |-> "none"]

(***************************************************************************)
(* Inputs: the CSV texts handed to load_from_csv, the clock, the queries.  *)
(***************************************************************************)
\* Fields of a BKAM line: maturity date, transaction, rate, value date.
Date0 == <<"0", "1", "/", "0", "1", "/", "2", "0", "2", "6">>
Date730 == <<"0", "1", "/", "0", "1", "/", "2", "0", "2", "8">>
Date1825 == <<"3", "1", "/", "1", "2", "/", "2", "0", "3", "0">>
Date3650 == <<"3", "0", "/", "1", "2", "/", "2", "0", "3", "5">>
DatePast == <<"3", "1", "/", "1", "2", "/", "2", "0", "2", "5">>
DateInvalid == <<"3", "1", "/", "0", "2", "/", "2", "0", "3", "0">>
Rate2210 == <<"2", ",", "2", "1", "0", " ", "%">>
Rate2500 == <<"2", ",", "5", "0", "0", " ", "%">>
Rate2750 == <<"2", ",", "7", "5", "0", " ", "%">>
Rate3100 == <<"3", ",", "1", "0", "0", " ", "%">>
RateMissing == <<"-">>
Transaction == <<"6", "5", ",", "0", "0">>

RECURSIVE Row(_)
Row(fields) ==
    IF Len(fields) = 1 THEN fields[1]
    ELSE fields[1] \o <<";">> \o Row(Tail(fields))

Quoted(field) == <<"\"">> \o field \o <<"\"">>

\* The lines a CSV is made of. The day counts are those on 2026-01-01.
Line730 == Row(<<Date730, Transaction, Rate2500, DatePast>>)
Line1825 == Row(<<Date1825, Transaction, Rate2750, DatePast>>)
Line3650 == Row(<<Date3650, Transaction, Rate3100, DatePast>>)
Line730Again == Row(<<Quoted(Date730), Quoted(Transaction), Quoted(Rate3100), Quoted(DatePast)>>)
Line0 == Row(<<Date0, Transaction, Rate2210, DatePast>>)
LineMatured == Row(<<DatePast, Transaction, Rate2500, DatePast>>)
LineBadDate == Row(<<DateInvalid, Transaction, Rate2750, DatePast>>)
LineBadRate == Row(<<Date1825, Transaction, RateMissing, DatePast>>)
LineThreeFields == Row(<<Date1825, Transaction, Rate2750>>)
LineTotal == Row(<<TotalPrefix, Transaction, <<>>, <<>>>>)
LineBlank == <<" ">>

InputLines ==
    {Line730, Line1825, Line3650, Line730Again, Line0, LineMatured, LineBadDate,
     LineBadRate, LineThreeFields, LineTotal, LineBlank}

\* The two header lines of the export.
HeaderLines == <<<<"T", "a", "u", "x", " ", "d", "e", " ", "r", "e", "f", "e", "r", "e", "n", "c", "e">>, <<"D", "a", "t", "e", ";", "T", "r", "a", "n", "s", "a", "c", "t", "i", "o", "n", ";", "T", "a", "u", "x", ";", "V", "a", "l", "e", "u", "r">>>>

RECURSIVE JoinLines(_)
JoinLines(ls) ==
    IF ls = <<>> THEN <<>>
    ELSE IF Len(ls) = 1 THEN ls[1]
    ELSE ls[1] \o <<"\n">> \o JoinLines(Tail(ls))

CsvOf(rows) == JoinLines(HeaderLines \o rows)

CsvContents ==
    {CsvOf(rows) : rows \in UNION {[1..n -> InputLines] : n \in 0..MaxRows}}

\* dt.now().date() at construction.
ReferenceDates == {Ordinal(2026, 1, 1)}

\* The target_years of the single queries, as <<numerator, denominator>>:
\* the 3 years of display_curve_info, 1 and 2.5 years, and the 2 years that
\* get_standard_maturities queries too.
QueryYears == {<<1, 1>>, <<2, 1>>, <<5, 2>>, <<3, 1>>}

(***************************************************************************)
(* Python values of the batch (main.py, mainold.py, utils/google_sheets.py) *)
(* and their text.                                                         *)
(*  - A value is tagged with its type: None, a float (a count of           *)
(*    1/RateScale, or NaN), a str whose characters the code inspects (a    *)
(*    sequence of characters), or a message (a str the code only passes    *)
(*    on).                                                                 *)
(*  - A dict is a function from its keys to values.                        *)
(*  - A worksheet is the sequence of its rows, a row the sequence of its   *)
(*    cells, a cell a text; the model keeps 8 of the 21 columns: Date,     *)
(*    EUR/MAD, the three treasury tenors, MASI, Phosphate DAP and BRENT    *)
(*    (one column or more per module; the other columns are filled like    *)
(*    EUR/MAD and BRENT).                                                  *)
(***************************************************************************)
None == <<"None">>
NaN == <<"nan">>
Float(v) == <<"float", v>>
Str(text) == <<"str", text>>
Message(m) == <<"message", m>>

\* ''
EmptyStr == Str(<<>>)

\* A dict, by its keys.
Dict(d) == <<"dict", d>>

\* {}
EmptyDict == Dict(<<>>)

IsDict(v) == v[1] = "dict"
IsFloat(v) == v[1] = "float"
IsStr(v) == v[1] = "str"

DigitChar(d) == CHOOSE c \in Digits : DigitVal(c) = d

\* str(n) for an int n >= 0.
RECURSIVE NatStr(_)
NatStr(n) == IF n < 10 THEN <<DigitChar(n)>> ELSE Append(NatStr(n \div 10), DigitChar(n % 10))

\* n as exactly w digits (the directives %m, %d, %H, %M, %S with w = 2).
RECURSIVE Padded(_, _)
Padded(n, w) == IF w = 0 THEN <<>> ELSE Append(Padded(n \div 10, w - 1), DigitChar(n % 10))

\* str(x) of a float x >= 0 that is v / RateScale: the digits of the integer
\* part, '.', and the fractional digits without trailing zeros ('3.0').
FloatStr(v) ==
    LET frac == RStrip(Padded(v % RateScale, RateDigits), {"0"})
    IN NatStr(v \div RateScale) \o <<".">> \o (IF frac = <<>> THEN <<"0">> ELSE frac)

\* str(cell) of a value: the characters of a str, the digits of a float.
StrOf(v) ==
    IF IsStr(v) THEN v[2]
    ELSE IF IsFloat(v) THEN FloatStr(v[2])
    ELSE IF v = NaN THEN <<"n", "a", "n">>
    ELSE <<"N", "o", "n", "e">>

(***************************************************************************)
(* The clock: datetime.now() and strftime.                                 *)
(***************************************************************************)
\* Clock readings per day, and the last reading of the model. The clock
\* starts at 2026-01-01 00:00:00 and a reading is one second after the
\* reading before it, or the first of the next day.
TicksPerDay == 2
MaxNow == 2

DayOf(t) == t \div TicksPerDay

\* datetime.now().date(), as an ordinal.
DateOrdinal(t) == Ordinal(2026, 1, 1) + DayOf(t)

\* strftime('%Y-%m-%d'); the days of the model lie in January 2026.
DateText(t) ==
    <<"2", "0", "2", "6", "-", "0", "1", "-">> \o Padded(DayOf(t) + 1, 2)

\* strftime('%Y-%m-%d %H:%M:%S')
TimestampText(t) ==
    DateText(t) \o <<" ", "0", "0", ":", "0", "0", ":">> \o Padded(t % TicksPerDay, 2)

\* text.split()[0]: the first run of characters that are not whitespace;
\* [ok |-> FALSE] stands for the IndexError of a text without one.
FirstWord(text) ==
    LET t == LStrip(text, Whitespace)
        ends == {i \in 1..Len(t) : t[i] \in Whitespace}
        stop == IF ends = {} THEN Len(t) + 1
                ELSE CHOOSE i \in ends : \A j \in ends : i <= j
    IN IF t = <<>> THEN [ok |-> FALSE, word |-> <<>>]
       ELSE [ok |-> TRUE, word |-> SubSeq(t, 1, stop - 1)]

(***************************************************************************)
(* The treasury component as the batch calls it: download_and_load,        *)
(* export_for_finance_bladi, get_bkam_treasury_official and main of        *)
(* bkam_treasury_official.py.                                              *)
(***************************************************************************)
IntOf(v) == <<"int", v>>
Fraction(f) == <<"fraction", f[1], f[2]>>

\* d.get(k)
Get(d, k) == IF k \in DOMAIN d THEN d[k] ELSE None

\* What the two requests.get of download_and_load meet: each raises or
\* answers with a status; matches is what re.findall finds in the page.
CsvLink == <<"/", "e", "x", "p", "o", "r", "t", "/", "b", "l", "o", "c", "k", "c", "s", "v", "/", "1">>

FetchOk(content) ==
    [page_raises |-> FALSE, page_status |-> 200, matches |-> <<CsvLink>>,
     csv_raises |-> FALSE, csv_status |-> 200, csv_content |-> content]

\* Download error, non-200 status, missing CSV link, CSV download error and
\* status.
FetchFailures ==
    {[FetchOk(<<>>) EXCEPT !.page_raises = TRUE],
     [FetchOk(<<>>) EXCEPT !.page_status = 500],
     [FetchOk(<<>>) EXCEPT !.matches = <<>>],
     [FetchOk(<<>>) EXCEPT !.csv_raises = TRUE],
     [FetchOk(<<>>) EXCEPT !.csv_status = 404]}

\* CSV exports: without data lines, with no valid line, with one point, with
\* two points of one day count, with the points at 730, 1825 and 3650 days.
FetchedCsvs ==
    {CsvOf(<<>>), CsvOf(<<LineBadRate>>), CsvOf(<<Line730>>),
     CsvOf(<<Line730, Line730Again>>), CsvOf(<<Line730, Line1825, Line3650>>)}

TreasuryFetches == FetchFailures \cup {FetchOk(c) : c \in FetchedCsvs}

\* [treasury_data, ret]: every exception is caught and makes the return
\* value False.
download_and_load(fetch, ref) ==
    IF fetch.page_raises \/ fetch.page_status # 200 THEN [treasury_data |-> <<>>, ret |-> FALSE]
    ELSE IF fetch.matches = <<>> THEN [treasury_data |-> <<>>, ret |-> FALSE]
    ELSE IF fetch.csv_raises \/ fetch.csv_status # 200 THEN [treasury_data |-> <<>>, ret |-> FALSE]
    ELSE load_from_csv(fetch.csv_content, ref)

MethodKey == [BT2Y |-> "BT2Y_METHOD", BT5Y |-> "BT5Y_METHOD", BT10Y |-> "BT10Y_METHOD"]
DaysKey == [BT2Y |-> "BT2Y_DAYS", BT5Y |-> "BT5Y_DAYS", BT10Y |-> "BT10Y_DAYS"]
YearsKey == [BT2Y |-> "BT2Y_YEARS", BT5Y |-> "BT5Y_YEARS", BT10Y |-> "BT10Y_YEARS"]

\* The entries export_for_finance_bladi adds for one tenor: none when its
\* rate is None.
TenorEntries(key, result) ==
    IF result.rate = {} THEN <<>>
    ELSE (key :> Float(CHOOSE v \in result.rate : TRUE))
         @@ (MethodKey[key] :> Message(result.method))
         @@ (DaysKey[key] :> IntOf(result.actual_days))
         @@ (YearsKey[key] :> Fraction(result.actual_years))

\* The dict export_for_finance_bladi builds from the standard rates. The two
\* isoformat stamps and the *_INTERPOLATED_FROM texts, which only format
\* values, are left out.
finance_bladi_output(data, standard_rates) ==
    ("data_points" :> IntOf(Len(data)))
    @@ ("methodology" :> Message("Interpolation lineaire BKAM/DTFE (standard OPCVM)"))
    @@ TenorEntries("BT2Y", standard_rates.BT2Y)
    @@ TenorEntries("BT5Y", standard_rates.BT5Y)
    @@ TenorEntries("BT10Y", standard_rates.BT10Y)
    @@ (IF data = <<>> THEN <<>>
        ELSE ("MIN_MATURITY" :> Str(data[1].maturity_date_str))
             @@ ("MAX_MATURITY" :> Str(data[Len(data)].maturity_date_str))
             @@ ("MIN_RATE" :> Float(data[1].rate))
             @@ ("MAX_RATE" :> Float(data[Len(data)].rate)))

\* [ret, exc] of export_for_finance_bladi.
export_for_finance_bladi(data) ==
    CHOOSE r \in {IF standard_rates.exc # "none" THEN [ret |-> <<>>, exc |-> standard_rates.exc]
                  ELSE [ret |-> finance_bladi_output(data, standard_rates.ret), exc |-> "none"] :
                  standard_rates \in {get_standard_maturities(data)}} : TRUE

\* The dict of the except branch.
ErrorResult(e) ==
    ("error" :> Message(e)) @@ ("BT2Y" :> None) @@ ("BT5Y" :> None) @@ ("BT10Y" :> None)

\* Mutant of get_bkam_treasury_official: a failed load is reported by
\* returning None.
get_bkam_treasury_official_none(fetch, ref) ==
    CHOOSE r \in {IF ~curve.ret THEN [ret |-> None, exc |-> "none"]
                  ELSE [ret |-> Dict(export_for_finance_bladi(curve.treasury_data).ret), exc |-> "none"] :
                  curve \in {download_and_load(fetch, ref)}} : TRUE

\* get_bkam_treasury_official once the curve is loaded: shown is the
\* exception of display_curve_info's query, standard_rates and export_data
\* are what get_standard_maturities and export_for_finance_bladi gave. The
\* exceptions of the try block (the failed load, the query, the ':.3f' of a
\* rate that is None, the 'method' of a result without one) end in the
\* except branch.
\* Mutant of official_result: the loop that prints each standard rate is
\* missing, so that an absent rate is not noticed before the export.
official_result_quiet(curve, shown, standard_rates, export_data) ==
    IF ~curve.ret THEN [ret |-> Dict(ErrorResult("Echec du chargement des donnees")), exc |-> "none"]
    ELSE IF shown # "none" THEN [ret |-> Dict(ErrorResult(shown)), exc |-> "none"]
    ELSE IF standard_rates.exc # "none" THEN [ret |-> Dict(ErrorResult(standard_rates.exc)), exc |-> "none"]
    ELSE IF export_data.exc # "none" THEN [ret |-> Dict(ErrorResult(export_data.exc)), exc |-> "none"]
    ELSE [ret |-> Dict(export_data.ret), exc |-> "none"]

official_result(curve, shown, standard_rates, export_data) ==
    LET results == {standard_rates.ret[k] : k \in DOMAIN standard_rates.ret}
    IN IF ~curve.ret THEN [ret |-> Dict(ErrorResult("Echec du chargement des donnees")), exc |-> "none"]
       ELSE IF shown # "none" THEN [ret |-> Dict(ErrorResult(shown)), exc |-> "none"]
       ELSE IF standard_rates.exc # "none" THEN [ret |-> Dict(ErrorResult(standard_rates.exc)), exc |-> "none"]
       ELSE IF \E r \in results : r.rate = {} THEN [ret |-> Dict(ErrorResult("TypeError")), exc |-> "none"]
       ELSE IF \E r \in results : "method" \notin DOMAIN r THEN [ret |-> Dict(ErrorResult("KeyError")), exc |-> "none"]
       ELSE IF export_data.exc # "none" THEN [ret |-> Dict(ErrorResult(export_data.exc)), exc |-> "none"]
       ELSE [ret |-> Dict(export_data.ret), exc |-> "none"]

\* [ret, exc] of get_bkam_treasury_official.
get_bkam_treasury_official(fetch, ref) ==
    CHOOSE r \in {official_result(curve,
                                  IF Len(curve.treasury_data) >= 2
                                  THEN get_rate_for_maturity(curve.treasury_data, <<3, 1>>).exc
                                  ELSE "none",
                                  get_standard_maturities(curve.treasury_data),
                                  export_for_finance_bladi(curve.treasury_data)) :
                  curve \in {download_and_load(fetch, ref)}} : TRUE

\* The 'final_output' dict of main() of bkam_treasury_official.py.
final_output(results) ==
    ("EUR/MAD" :> None) @@ ("USD/MAD" :> None)
    @@ ("BT2Y" :> Get(results, "BT2Y"))
    @@ ("BT5Y" :> Get(results, "BT5Y"))
    @@ ("BT10Y" :> Get(results, "BT10Y"))
    @@ ("TREASURY_DATA_SOURCE" :> Message("BKAM Official"))
    @@ ("TREASURY_METHOD" :> Get(results, "methodology"))

\* main() of bkam_treasury_official.py, which mainold.py's collector calls:
\* the error dict as it is, or the 'final_output' dict ("'error' in results"
\* is a TypeError when results is no dict).
bkam_treasury_official_main(fetch, ref) ==
    CHOOSE r \in {IF ~IsDict(results.ret) THEN [ret |-> None, exc |-> "TypeError"]
                  ELSE IF "error" \in DOMAIN results.ret[2] THEN [ret |-> results.ret, exc |-> "none"]
                  ELSE [ret |-> Dict(final_output(results.ret[2])), exc |-> "none"] :
                  results \in {get_bkam_treasury_official(fetch, ref)}} : TRUE

(***************************************************************************)
(* main.py and mainold.py: DataCleaner, ModuleCollector, DataProcessor.    *)
(***************************************************************************)
\* DataCleaner.fix_nan_values
RECURSIVE fix_nan_values(_)
fix_nan_values(data) ==
    IF IsDict(data) THEN Dict([k \in DOMAIN data[2] |-> fix_nan_values(data[2][k])])
    ELSE IF data = NaN THEN EmptyStr
    ELSE data

\* DataCleaner.clean_data_for_export
clean_data_for_export(raw) == [k \in DOMAIN raw |-> fix_nan_values(raw[k])]

\* ModuleCollector.MODULES, by display name.
MODULES == <<"bkam_forex", "bkam_treasury", "investing_masi", "trading_economics", "yahoo_markets">>

\* collect_all from the module at index i on: call[display_name] is what
\* _collect_module does for that module, [ret, exc]. attempted lists the
\* modules in the order of their 'Collecting ...' log lines.
RECURSIVE collect_all(_, _, _)
collect_all(call, i, acc) ==
    IF i > Len(MODULES) THEN acc
    ELSE LET display_name == MODULES[i]
             result == call[display_name]
             seen == [acc EXCEPT !.attempted = Append(@, display_name)]
         IN collect_all(call, i + 1,
                IF result.exc # "none"
                THEN [seen EXCEPT !.errors = Append(@, <<display_name, result.exc>>)]
                ELSE IF result.ret # None
                THEN [seen EXCEPT !.results = (display_name :> fix_nan_values(result.ret)) @@ @]
                ELSE [seen EXCEPT !.errors = Append(@, <<display_name, "No data">>)])

\* ModuleCollector(): results = {}, errors = [].
NewCollector == [results |-> <<>>, errors |-> <<>>, attempted |-> <<>>]

\* DataProcessor._extract_nested_value(data, *paths); no path of the model
\* has a dot.
RECURSIVE _extract_nested_value(_, _)
_extract_nested_value(data, paths) ==
    IF ~IsDict(data) \/ paths = <<>> THEN EmptyStr
    ELSE LET current == Get(data[2], Head(paths))
         IN IF current # None /\ current # EmptyStr
            THEN (IF current = NaN THEN EmptyStr ELSE current)
            ELSE _extract_nested_value(data, Tail(paths))

\* DataProcessor._clean_masi_value
_clean_masi_value(value) ==
    IF IsStr(value) THEN Str(Replace(value[2], ",", <<>>)) ELSE value

\* raw_data.get(key, {}), all_data.get(key, {})
GetOrEmpty(raw, key) == IF key \in DOMAIN raw THEN raw[key] ELSE EmptyDict

\* The cell of a cleaned row: NaN and None become ''.
CleanCell(cell) == IF cell = NaN \/ cell = None THEN EmptyStr ELSE cell

\* DataProcessor.process of the cleaned data at clock reading t: the row
\* (the one element of the returned list), in the order of COLUMNS.
process(raw, t) ==
    LET treasury_data_ == GetOrEmpty(raw, "bkam_treasury")
        masi_value == _extract_nested_value(GetOrEmpty(raw, "investing_masi"), <<"MASI", "masi", "value">>)
        row == <<Str(TimestampText(t)),
                 _extract_nested_value(GetOrEmpty(raw, "bkam_forex"), <<"EUR/MAD", "eur_mad", "EUR_MAD">>),
                 _extract_nested_value(treasury_data_, <<"BT2Y", "bt2y", "2Y">>),
                 _extract_nested_value(treasury_data_, <<"BT5Y", "bt5y", "5Y">>),
                 _extract_nested_value(treasury_data_, <<"BT10Y", "bt10y", "10Y">>),
                 IF masi_value # EmptyStr THEN _clean_masi_value(masi_value) ELSE EmptyStr,
                 _extract_nested_value(GetOrEmpty(raw, "trading_economics"),
                                       <<"Phosphate DAP", "phosphate", "DAP", "value", "PHOSPHATE_DAP">>),
                 _extract_nested_value(GetOrEmpty(raw, "yahoo_markets"), <<"BRENT", "brent">>)>>
    IN [i \in 1..Len(row) |-> CleanCell(row[i])]

\* DataProcessor.COLUMNS (the 8 columns of the model), as cells.
COLUMNS ==
    <<<<"D", "a", "t", "e">>,
      <<"E", "U", "R", "/", "M", "A", "D">>,
      <<"B", "T", "2", "Y", " ", "(", "%", ")">>,
      <<"B", "T", "5", "Y", " ", "(", "%", ")">>,
      <<"B", "T", "1", "0", "Y", " ", "(", "%", ")">>,
      <<"M", "A", "S", "I">>,
      <<"P", "h", "o", "s", "p", "h", "a", "t", "e", " ", "D", "A", "P", " ", "(", "U", "S", "D", "/", "T", ")">>,
      <<"B", "R", "E", "N", "T", " ", "(", "U", "S", "D", ")">>>>

(***************************************************************************)
(* The worksheet (gspread) and the exporters: GoogleSheetsExporter of      *)
(* main.py and of mainold.py, UnifiedDataExporter of utils/google_sheets.py. *)
(* faults is the set of API calls that raise during one export: a call in  *)
(* it raises each time the export makes it.                                *)
(***************************************************************************)
\* "open" stands for the calls up to the worksheet: from_service_account_file,
\* authorize, open_by_key, worksheet / add_worksheet.
ApiCalls == {"open", "row_values", "clear", "append_row", "get_all_values", "update_cell"}

\* worksheet.row_values(i): the cells of row i up to its last cell that is
\* not empty.
row_values(ws, i) == IF i > Len(ws) THEN <<>> ELSE RStrip(ws[i], {<<>>})

\* worksheet.append_row(values): a new row after the last one.
append_row(ws, values) == Append(ws, values)

\* The rows of ws up to row r, rows of no cell added as needed.
UpTo(ws, r) == [i \in 1..(IF r > Len(ws) THEN r ELSE Len(ws)) |-> IF i > Len(ws) THEN <<>> ELSE ws[i]]

\* "for col, value in enumerate(values, start=1): update_cell(r, col, value)":
\* the cells 1..len(values) of row r are written, the others stay.
update_cells(ws, r, values) ==
    LET grown == UpTo(ws, r)
        old == grown[r]
        n == IF Len(old) > Len(values) THEN Len(old) ELSE Len(values)
    IN [grown EXCEPT ![r] = [c \in 1..n |-> IF c <= Len(values) THEN values[c] ELSE old[c]]]

\* Mutant of _ensure_headers: the header row is appended without clearing
\* the worksheet first.
_ensure_headers_appending(ws, faults) ==
    LET first_row == row_values(ws, 1)
    IN IF "row_values" \in faults THEN [worksheet |-> ws, ret |-> FALSE]
       ELSE IF first_row = <<>> \/ first_row[1] # COLUMNS[1]
       THEN (IF "append_row" \in faults THEN [worksheet |-> ws, ret |-> FALSE]
             ELSE [worksheet |-> append_row(ws, COLUMNS), ret |-> TRUE])
       ELSE [worksheet |-> ws, ret |-> TRUE]

\* _ensure_headers of main.py and mainold.py, _ensure_headers_exist of
\* google_sheets.py (the same code): [worksheet, ret].
_ensure_headers(ws, faults) ==
    LET first_row == row_values(ws, 1)
    IN IF "row_values" \in faults THEN [worksheet |-> ws, ret |-> FALSE]
       ELSE IF first_row = <<>> \/ first_row[1] # COLUMNS[1]
       THEN (IF "clear" \in faults THEN [worksheet |-> ws, ret |-> FALSE]
             ELSE IF "append_row" \in faults THEN [worksheet |-> <<>>, ret |-> FALSE]
             ELSE [worksheet |-> append_row(<<>>, COLUMNS), ret |-> TRUE])
       ELSE [worksheet |-> ws, ret |-> TRUE]

\* clean_data_row: '' for NaN and None, str(cell) otherwise.
clean_data_row(data_row) ==
    [i \in 1..Len(data_row) |->
        IF data_row[i] = NaN \/ data_row[i] = None THEN <<>> ELSE StrOf(data_row[i])]

\* What an export leaves: the worksheet, the returned value, what the header
\* check returned ("not called", "True", "False") and the worksheet it
\* left, the row update_cell was aimed at (0: none) and the number of data
\* rows appended by append_row.
Exported(ws, ret, h, target, appended) ==
    [worksheet |-> ws, ret |-> ret,
     header_ret |-> IF h.ret THEN "True" ELSE "False", header_worksheet |-> h.worksheet,
     target |-> target, appended |-> appended]

NotExported(ws) ==
    [worksheet |-> ws, ret |-> FALSE, header_ret |-> "not called", header_worksheet |-> ws,
     target |-> 0, appended |-> 0]

\* GoogleSheetsExporter.export of main.py.
export_main(ws, data_row, credentials_exist, faults) ==
    LET h == _ensure_headers(ws, faults)
    IN IF ~credentials_exist \/ "open" \in faults THEN NotExported(ws)
       ELSE IF "append_row" \in faults THEN Exported(h.worksheet, FALSE, h, 0, 0)
       ELSE Exported(append_row(h.worksheet, clean_data_row(data_row)), TRUE, h, 0, 1)

\* The data rows (index >= 2) whose first cell has today_date as its first
\* word: "if row and row[0]", then row[0].split()[0] == today_date.
RowsOfDate(all_rows, today_date) ==
    {i \in 2..Len(all_rows) :
        /\ all_rows[i] # <<>>
        /\ all_rows[i][1] # <<>>
        /\ FirstWord(all_rows[i][1]).ok
        /\ FirstWord(all_rows[i][1]).word = today_date}

\* existing_row: the first of them, 0 when there is none.
ExistingRow(all_rows, today_date) ==
    LET found == RowsOfDate(all_rows, today_date)
    IN IF found = {} THEN 0 ELSE CHOOSE i \in found : \A j \in found : i <= j

\* The common part of mainold.py's export and of export_unified_data, after
\* the header check h: today's row is looked up and written cell by cell,
\* or a row is appended. fallback: a failed append_row is made up for cell by
\* cell at row len(all_data) + 1 (mainold.py).
upsert(h, values, today_date, faults, fallback) ==
    LET all_data == h.worksheet
        existing_row == ExistingRow(all_data, today_date)
        next_row == Len(all_data) + 1
    IN IF "get_all_values" \in faults THEN Exported(h.worksheet, FALSE, h, 0, 0)
       ELSE IF existing_row # 0
       THEN (IF "update_cell" \in faults THEN Exported(all_data, FALSE, h, existing_row, 0)
             ELSE Exported(update_cells(all_data, existing_row, values), TRUE, h, existing_row, 0))
       ELSE IF "append_row" \notin faults
       THEN Exported(append_row(all_data, values), TRUE, h, 0, 1)
       ELSE IF ~fallback THEN Exported(all_data, FALSE, h, 0, 0)
       ELSE IF "update_cell" \in faults THEN Exported(all_data, FALSE, h, next_row, 0)
       ELSE Exported(update_cells(all_data, next_row, values), TRUE, h, next_row, 0)

\* GoogleSheetsExporter.export of mainold.py, at clock reading t: the value
\* of _ensure_headers is not looked at.
export_mainold(ws, data_row, t, credentials_exist, faults) ==
    LET h == _ensure_headers(ws, faults)
    IN IF ~credentials_exist \/ "open" \in faults THEN NotExported(ws)
       ELSE upsert(h, clean_data_row(data_row), DateText(t), faults, TRUE)

\* get_value of _extract_data_values: the value of the first key the dict
\* has ('' without one; a dict value gives its 'value' or 'data').
RECURSIVE get_value(_, _)
get_value(data_dict, possible_keys) ==
    IF ~IsDict(data_dict) \/ possible_keys = <<>> THEN EmptyStr
    ELSE IF Head(possible_keys) \in DOMAIN data_dict[2]
    THEN LET val == data_dict[2][Head(possible_keys)]
         IN IF ~IsDict(val) THEN val
            ELSE IF "value" \in DOMAIN val[2] THEN val[2]["value"]
            ELSE IF "data" \in DOMAIN val[2] THEN val[2]["data"]
            ELSE EmptyStr
    ELSE get_value(data_dict, Tail(possible_keys))

\* UnifiedDataExporter._extract_data_values at clock reading t.
_extract_data_values(all_data, t) ==
    <<Str(TimestampText(t)),
      get_value(GetOrEmpty(all_data, "bkam_forex"), <<"EUR/MAD", "eur_mad", "EUR_MAD", "EUR_MAD_value">>),
      get_value(GetOrEmpty(all_data, "bkam_treasury"), <<"BT2Y", "bt2y", "2Y", "2y", "BT2Y_value">>),
      get_value(GetOrEmpty(all_data, "bkam_treasury"), <<"BT5Y", "bt5y", "5Y", "5y", "BT5Y_value">>),
      get_value(GetOrEmpty(all_data, "bkam_treasury"), <<"BT10Y", "bt10y", "10Y", "10y", "BT10Y_value">>),
      get_value(GetOrEmpty(all_data, "investing_masi"), <<"MASI", "masi", "value", "index">>),
      get_value(GetOrEmpty(all_data, "trading_economics"), <<"Phosphate DAP", "phosphate", "DAP", "value", "price">>),
      get_value(GetOrEmpty(all_data, "yahoo_markets"), <<"BRENT", "brent", "OIL_BRENT">>)>>

\* UnifiedDataExporter.export_unified_data: the values are stamped at clock
\* reading t1 and today's date is read at t2 >= t1. A failed header check
\* ends the export; with no data row yet the row is appended at once.
export_unified_data(ws, all_data, t1, t2, credentials_exist, faults) ==
    LET h == _ensure_headers(ws, faults)
        today_values == clean_data_row(_extract_data_values(all_data, t1))
    IN IF ~credentials_exist \/ "open" \in faults THEN NotExported(ws)
       ELSE IF ~h.ret THEN Exported(h.worksheet, FALSE, h, 0, 0)
       ELSE IF "get_all_values" \notin faults /\ Len(h.worksheet) <= 1
       THEN (IF "append_row" \in faults THEN Exported(h.worksheet, FALSE, h, 0, 0)
             ELSE Exported(append_row(h.worksheet, today_values), TRUE, h, 0, 1))
       ELSE upsert(h, today_values, DateText(t2), faults, FALSE)

(***************************************************************************)
(* LocalStorage.save                                                       *)
(***************************************************************************)
\* The files of data/: raw_<timestamp>.json and data_<timestamp>.csv (its
\* header line and the row, each cell as str(cell)), written at clock
\* reading t. An OSError of open() leaves no file.
save(dir, raw, processed_row, t, disk_fails) ==
    IF disk_fails THEN [files |-> dir, exc |-> "OSError"]
    ELSE [files |-> dir \cup {[name |-> "raw", timestamp |-> t, content |-> <<clean_data_for_export(raw)>>],
                                 [name |-> "data", timestamp |-> t,
                                  content |-> <<COLUMNS, clean_data_row(processed_row)>>]},
          exc |-> "none"]

\* No call of get_bkam_forex_rates.
NoForex ==
    /\ forex_http = "none"
    /\ forex_frame = "none"
    /\ forex_ret = <<"unset">>

\* No call of collect_data.
NoYahoo ==
    /\ yfinance = <<>>
    /\ investing = "none"
    /\ yahoo_pc = "none"
    /\ asset_index = 0
    /\ yahoo_results = <<>>
    /\ successful = 0
    /\ consulted = <<>>
    /\ yahoo_ret = <<"unset">>

\* No scheduler.
NoScheduler ==
    /\ clock = 0
    /\ sched_pc = "none"
    /\ next_run = 0
    /\ run_log = <<>>

NoOthers == NoForex /\ NoYahoo /\ NoScheduler

(***************************************************************************)
(* The state machine.                                                      *)
(***************************************************************************)
\* No batch is running: the batch variables while the curve object is used
\* on its own.
NoBatch ==
    /\ program = "none"
    /\ credentials = FALSE
    /\ download = FetchOk(<<>>)
    /\ others = <<>>
    /\ now = 0
    /\ worksheet = <<>>
    /\ files = {}
    /\ pc = "none"
    /\ raw_data = <<>>
    /\ errors = <<>>
    /\ attempted = <<>>
    /\ processed_data = <<>>
    /\ export_success = "unset"
    /\ caught = "none"
    /\ main_ret = "unset"
    /\ last_export = [op |-> "none"]
    /\ runs = 0

\* fetch_url is not called.
NoFetch ==
    /\ retries = 0
    /\ delay = 0
    /\ scraper = FALSE
    /\ attempt = 0
    /\ response = "none"
    /\ trace = <<>>
    /\ fetch_pc = "none"
    /\ fetch_ret = <<"unset">>
    /\ fetch_exc = "none"

\* __init__ without csv_content or csv_url; csv_content is the text that
\* download_and_load will hand to load_from_csv.
Init ==
    /\ csv_content \in CsvContents
    /\ reference_date \in ReferenceDates
    /\ treasury_data = <<>>
    /\ loaded = FALSE
    /\ last_call = [op |-> "__init__"]
    /\ NoBatch
    /\ NoFetch
    /\ NoOthers

\* load_from_csv(csv_content), called once per curve (by download_and_load
\* or by the constructor).
Load ==
    /\ ~loaded
    /\ LET r == load_from_csv(csv_content, reference_date)
       IN /\ treasury_data' = r.treasury_data
          /\ last_call' = [op |-> "load_from_csv", ret |-> r.ret, exc |-> "none"]
    /\ loaded' = TRUE
    /\ UNCHANGED <<csv_content, reference_date>>
    /\ UNCHANGED <<batch_vars, fetch_vars, other_vars>>

\* Mutant of QueryRate: the query takes the first point off the curve.
QueryRateConsuming ==
    /\ loaded
    /\ \E y \in QueryYears :
          LET r == get_rate_for_maturity(treasury_data, y)
          IN last_call' = [op |-> "get_rate_for_maturity", target_years |-> y,
                           ret |-> r.ret, exc |-> r.exc]
    /\ treasury_data' = IF treasury_data = <<>> THEN <<>> ELSE Tail(treasury_data)
    /\ UNCHANGED <<csv_content, reference_date, loaded>>
    /\ UNCHANGED <<batch_vars, fetch_vars, other_vars>>

\* get_rate_for_maturity(target_years), on a curve whose load was attempted
\* (get_bkam_treasury_official loads before it queries).
QueryRate ==
    /\ loaded
    /\ \E y \in QueryYears :
          LET r == get_rate_for_maturity(treasury_data, y)
          IN last_call' = [op |-> "get_rate_for_maturity", target_years |-> y,
                           ret |-> r.ret, exc |-> r.exc]
    /\ UNCHANGED <<csv_content, reference_date, treasury_data, loaded>>
    /\ UNCHANGED <<batch_vars, fetch_vars, other_vars>>

\* get_standard_maturities()
QueryStandard ==
    /\ loaded
    /\ LET r == get_standard_maturities(treasury_data)
       IN last_call' = [op |-> "get_standard_maturities", ret |-> r.ret, exc |-> r.exc]
    /\ UNCHANGED <<csv_content, reference_date, treasury_data, loaded>>
    /\ UNCHANGED <<batch_vars, fetch_vars, other_vars>>

Next == Load \/ QueryRate \/ QueryStandard

Spec == Init /\ [][Next]_vars

(***************************************************************************)
(* The batch: one run of main() of main.py or of mainold.py.               *)
(***************************************************************************)
OtherModules == {"bkam_forex", "investing_masi", "trading_economics", "yahoo_markets"}

\* What a module other than the treasury one returns when it works.
ModuleData ==
    [bkam_forex |-> Dict(("EUR/MAD" :> Float(Percent(107496, 10000)))
                         @@ ("USD/MAD" :> Float(Percent(9172, 1000)))),
     investing_masi |-> Dict("MASI" :> Str(<<"1", "9", ",", "4", "4", "5", ".", "4", "6">>)),
     trading_economics |-> Dict("Phosphate DAP" :> Float(Percent(625, 1))),
     yahoo_markets |-> Dict(("BRENT" :> Float(Percent(6036, 100))) @@ ("WTI" :> NaN))]

\* A module returns its data, returns None or raises. The runs taken: all
\* modules work but possibly one, or all of them raise.
OtherOutcomes ==
    {o \in [OtherModules -> {"data", "None", "raise"}] :
        \/ \E m \in OtherModules : \A n \in OtherModules \ {m} : o[n] = "data"
        \/ \A m \in OtherModules : o[m] = "raise"}

AllData == [m \in OtherModules |-> "data"]

\* What the treasury module meets: the import fails (ImportError), or the
\* downloads go one of the ways of TreasuryFetches.
ImportFails == [FetchOk(<<>>) EXCEPT !.page_status = 0]

TreasuryDownloads == TreasuryFetches \cup {ImportFails}

\* _collect_module(display_name, module_name) for every module: [ret, exc].
\* main.py calls get_bkam_treasury_official, mainold.py the module's main.
\* Every exception leaves as Exception('Module error: ...').
_collect_module(prog, dl, oth, t) ==
    [display_name \in {MODULES[i] : i \in 1..Len(MODULES)} |->
        IF display_name = "bkam_treasury"
        THEN (IF dl = ImportFails THEN [ret |-> None, exc |-> "Module error"]
              ELSE IF prog = "main"
              THEN get_bkam_treasury_official(dl, DateOrdinal(t))
              ELSE CHOOSE r \in {IF returned.exc # "none" THEN [ret |-> None, exc |-> "Module error"]
                                 ELSE returned :
                                 returned \in {bkam_treasury_official_main(dl, DateOrdinal(t))}} : TRUE)
        ELSE IF oth[display_name] = "data" THEN [ret |-> ModuleData[display_name], exc |-> "none"]
        ELSE IF oth[display_name] = "None" THEN [ret |-> None, exc |-> "none"]
        ELSE [ret |-> None, exc |-> "Module error"]]

NoCurve ==
    /\ csv_content = <<>>
    /\ reference_date = 0
    /\ treasury_data = <<>>
    /\ loaded = FALSE
    /\ last_call = [op |-> "none"]

\* The process starts main(): nothing collected, an empty or a headed
\* worksheet, no file.
MainInit ==
    /\ NoCurve
    /\ NoFetch
    /\ NoOthers
    /\ program \in {"main", "mainold"}
    /\ credentials \in BOOLEAN
    /\ download \in TreasuryDownloads
    /\ others \in OtherOutcomes
    /\ now = 0
    /\ worksheet \in {<<>>, <<COLUMNS>>}
    /\ files = {}
    /\ pc = "start"
    /\ raw_data = <<>>
    /\ errors = <<>>
    /\ attempted = <<>>
    /\ processed_data = <<>>
    /\ export_success = "unset"
    /\ caught = "none"
    /\ main_ret = "unset"
    /\ last_export = [op |-> "none"]
    /\ runs = 0

\* The clock moves on.
Tick ==
    /\ pc \notin {"none", "done"}
    /\ now < MaxNow
    /\ now' = now + 1
    /\ UNCHANGED <<other_vars, curve_vars, fetch_vars, batch_env, worksheet, files, pc, main_locals, last_export, runs>>

\* Mutant of Start: main.py goes on without the credentials file.
StartWithoutCheck ==
    /\ pc = "start"
    /\ pc' = "collect"
    /\ UNCHANGED <<other_vars, curve_vars, fetch_vars, batch_env, now, worksheet, files, last_export, runs>>
    /\ UNCHANGED <<raw_data, errors, attempted, processed_data, export_success, caught, main_ret>>

\* main() up to its try block: main.py looks for the credentials file and
\* returns False without one; mainold.py has no such check.
Start ==
    /\ pc = "start"
    /\ IF program = "main" /\ ~credentials
       THEN pc' = "done" /\ main_ret' = "False"
       ELSE pc' = "collect" /\ main_ret' = main_ret
    /\ UNCHANGED <<other_vars, curve_vars, fetch_vars, batch_env, now, worksheet, files, last_export, runs>>
    /\ UNCHANGED <<raw_data, errors, attempted, processed_data, export_success, caught>>

\* raw_data = collector.collect_all(); mainold.py returns False when no
\* module gave data.
CollectAll ==
    /\ pc = "collect"
    /\ \E call \in {_collect_module(program, download, others, now)} :
       \E c \in {collect_all(call, 1, NewCollector)} :
          /\ raw_data' = c.results
          /\ errors' = c.errors
          /\ attempted' = c.attempted
          /\ IF program = "mainold" /\ DOMAIN c.results = {}
             THEN pc' = "done" /\ main_ret' = "False"
             ELSE pc' = "process" /\ main_ret' = main_ret
    /\ UNCHANGED <<other_vars, curve_vars, fetch_vars, batch_env, now, worksheet, files, last_export, runs>>
    /\ UNCHANGED <<processed_data, export_success, caught>>

\* raw_data = clean_data_for_export(raw_data);
\* processed_data = processor.process(raw_data)
Process ==
    /\ pc = "process"
    /\ raw_data' = clean_data_for_export(raw_data)
    /\ processed_data' = process(clean_data_for_export(raw_data), now)
    /\ pc' = "export"
    /\ UNCHANGED <<other_vars, curve_vars, fetch_vars, batch_env, now, worksheet, files, last_export, runs>>
    /\ UNCHANGED <<errors, attempted, export_success, caught, main_ret>>

\* export_success = sheets_exporter.export(processed_data), with the API
\* calls of faults raising; main goes on at position after.
ExportStep(after) ==
    /\ pc = "export"
    /\ program \in {"main", "mainold"}
    /\ \E faults \in SUBSET ApiCalls :
          \E r \in {IF program = "main"
                    THEN export_main(worksheet, processed_data, credentials, faults)
                    ELSE export_mainold(worksheet, processed_data, now, credentials, faults)} :
             /\ worksheet' = r.worksheet
             /\ export_success' = IF r.ret THEN "True" ELSE "False"
             /\ last_export' = [op |-> program, before |-> worksheet] @@ r
    /\ pc' = after
    /\ UNCHANGED <<other_vars, curve_vars, fetch_vars, batch_env, now, files>>
    /\ UNCHANGED <<raw_data, errors, attempted, processed_data, caught, main_ret>>

Export == ExportStep("save") /\ runs' = runs

\* Mutant of Save: the backup is written only after an export that
\* succeeded.
SaveAfterSuccess ==
    /\ pc = "save"
    /\ \E disk_fails \in BOOLEAN :
          \E r \in {save(files, raw_data, processed_data, now, disk_fails)} :
             /\ files' = IF export_success = "True" THEN r.files ELSE files
             /\ caught' = r.exc
             /\ main_ret' = IF r.exc # "none" THEN "False" ELSE export_success
    /\ pc' = "done"
    /\ UNCHANGED <<other_vars, curve_vars, fetch_vars, batch_env, now, worksheet, last_export, runs>>
    /\ UNCHANGED <<raw_data, errors, attempted, processed_data, export_success>>

\* local_storage.save(raw_data, processed_data); return export_success. An
\* exception of save is caught by main's except branch, which returns False.
Save ==
    /\ pc = "save"
    /\ \E disk_fails \in BOOLEAN :
          \E r \in {save(files, raw_data, processed_data, now, disk_fails)} :
             /\ files' = r.files
             /\ caught' = r.exc
             /\ main_ret' = IF r.exc # "none" THEN "False" ELSE export_success
    /\ pc' = "done"
    /\ UNCHANGED <<other_vars, curve_vars, fetch_vars, batch_env, now, worksheet, last_export, runs>>
    /\ UNCHANGED <<raw_data, errors, attempted, processed_data, export_success>>

MainNext == Tick \/ Start \/ CollectAll \/ Process \/ Export \/ Save

MainSpec == MainInit /\ [][MainNext]_vars

(***************************************************************************)
(* The worksheet over several exports: runs of main() of main.py or of     *)
(* mainold.py whose modules all work, or calls of test_with_real_data of   *)
(* utils/google_sheets.py.                                                 *)
(***************************************************************************)
\* Largest number of exports.
MaxExports == 2

\* sample_data of test_with_real_data (the entries of yahoo_markets that no
\* column of the model reads are left out).
sample_data ==
    [bkam_forex |-> Dict(("EUR/MAD" :> Float(Percent(107496, 10000)))
                         @@ ("USD/MAD" :> Float(Percent(9172, 1000)))),
     bkam_treasury |-> Dict(("BT2Y" :> Float(Percent(2495, 1000)))
                            @@ ("BT5Y" :> Float(Percent(2658, 1000)))
                            @@ ("BT10Y" :> Float(Percent(2982, 1000)))),
     investing_masi |-> Dict("MASI" :> Float(Percent(1944546, 100))),
     trading_economics |-> Dict("Phosphate DAP" :> Float(Percent(625, 1))),
     yahoo_markets |-> Dict(("BRENT" :> Float(Percent(6036, 100)))
                            @@ ("WTI" :> Float(Percent(5644, 100))))]

\* A row somebody typed for the first day of the clock: the date alone and
\* one rate.
TypedRow == <<DateText(0), <<>>, <<"2", ".", "5">>>>

\* Row 1 of a worksheet that was not made by these programs.
TitleRow == <<<<"R", "a", "t", "e", "s">>>>

\* The worksheets the exports start from: without a row, with the header
\* row alone, with the header row and a data row, and with another first row.
InitialSheets == {<<>>, <<COLUMNS>>, <<COLUMNS, TypedRow>>, <<TitleRow, TypedRow>>}

\* The CSV export of the standard curve.
StandardCsv == CsvOf(<<Line730, Line1825, Line3650>>)

SheetInit ==
    /\ NoCurve
    /\ NoFetch
    /\ NoOthers
    /\ program \in {"main", "mainold", "google_sheets"}
    /\ credentials = TRUE
    /\ download = FetchOk(StandardCsv)
    /\ others = AllData
    /\ now = 0
    /\ worksheet \in InitialSheets
    /\ files = {}
    /\ pc = IF program = "google_sheets" THEN "test" ELSE "process"
    /\ raw_data = IF program = "google_sheets" THEN sample_data
                  ELSE collect_all(_collect_module(program, download, others, now), 1, NewCollector).results
    /\ errors = <<>>
    /\ attempted = IF program = "google_sheets" THEN <<>> ELSE MODULES
    /\ processed_data = <<>>
    /\ export_success = "unset"
    /\ caught = "none"
    /\ main_ret = "unset"
    /\ last_export = [op |-> "none"]
    /\ runs = 0

\* The export of one more run of main(), which goes on with the next run:
\* the local save, which leaves the worksheet alone, is not followed.
ExportAgain ==
    /\ runs < MaxExports
    /\ ExportStep("process")
    /\ runs' = runs + 1

\* test_with_real_data(): export_unified_data(sample_data). The clock is
\* read twice, for the row's stamp and for today's date.
TestWithRealData ==
    /\ pc = "test"
    /\ runs < MaxExports
    /\ \E faults \in SUBSET ApiCalls :
       \E t2 \in {t \in {now, now + 1} : t <= MaxNow} :
       \E r \in {export_unified_data(worksheet, raw_data, now, t2, credentials, faults)} :
          /\ worksheet' = r.worksheet
          /\ export_success' = IF r.ret THEN "True" ELSE "False"
          /\ last_export' = [op |-> program, before |-> worksheet] @@ r
          /\ now' = t2
    /\ runs' = runs + 1
    /\ UNCHANGED <<other_vars, curve_vars, fetch_vars, batch_env, files, pc>>
    /\ UNCHANGED <<raw_data, errors, attempted, processed_data, caught, main_ret>>

SheetNext == Tick \/ Process \/ ExportAgain \/ TestWithRealData

SheetSpec == SheetInit /\ [][SheetNext]_vars

(***************************************************************************)
(* fetch_url(url, retries, delay) of utils/scraper_utils.py.               *)
(***************************************************************************)
\* Largest retries argument.
MaxRetries == 3

\* The delay arguments: time.sleep raises ValueError for a negative one.
Delays == {0 - 1, 0, 2}

\* What a request meets: a status code, a RequestException or another
\* exception.
Outcomes == {"200", "403", "500", "RequestException", "Exception"}

\* A response, by its status code.
Response(status) == <<"response", status>>

FetchInit ==
    /\ NoCurve
    /\ NoBatch
    /\ NoOthers
    /\ retries \in (0 - 1)..MaxRetries
    /\ delay \in Delays
    /\ scraper \in BOOLEAN
    /\ attempt = 0
    /\ response = "none"
    /\ trace = <<>>
    /\ fetch_pc = "start"
    /\ fetch_ret = <<"unset">>
    /\ fetch_exc = "none"

\* scraper = get_scraper(); "if not scraper: return None"; the for loop
\* starts, or ends at once when range(1, retries + 1) is empty.
GetScraper ==
    /\ fetch_pc = "start"
    /\ IF ~scraper \/ retries < 1
       THEN fetch_pc' = "done" /\ fetch_ret' = None /\ attempt' = attempt
       ELSE fetch_pc' = "get" /\ fetch_ret' = fetch_ret /\ attempt' = 1
    /\ UNCHANGED <<other_vars, curve_vars, batch_vars, retries, delay, scraper, response, trace, fetch_exc>>

\* What follows a request of the try block that met outcome: the POST after
\* a GET answered 403, the return of a 200 response, or the end of the
\* attempt (a warning or a logged exception).
AfterRequest(method, outcome) ==
    /\ trace' = Append(trace, <<method, attempt, outcome>>)
    /\ response' = IF outcome \in {"RequestException", "Exception"} THEN response ELSE outcome
    /\ IF method = "GET" /\ outcome = "403"
       THEN fetch_pc' = "post" /\ fetch_ret' = fetch_ret
       ELSE IF outcome = "200"
       THEN fetch_pc' = "done" /\ fetch_ret' = Response(outcome)
       ELSE fetch_pc' = "wait" /\ fetch_ret' = fetch_ret
    /\ UNCHANGED <<other_vars, curve_vars, batch_vars, retries, delay, scraper, attempt, fetch_exc>>

\* response = scraper.get(url, timeout=30)
ScraperGet ==
    /\ fetch_pc = "get"
    /\ \E outcome \in Outcomes : AfterRequest("GET", outcome)

\* response = scraper.post(url, timeout=30)
ScraperPost ==
    /\ fetch_pc = "post"
    /\ \E outcome \in Outcomes : AfterRequest("POST", outcome)

\* Mutant of Wait: the sleep is also made after the last attempt.
WaitAfterEvery ==
    /\ fetch_pc = "wait"
    /\ IF delay < 0
       THEN fetch_pc' = "done" /\ fetch_exc' = "ValueError" /\ fetch_ret' = fetch_ret
            /\ UNCHANGED <<attempt, trace>>
       ELSE IF attempt >= retries
       THEN fetch_pc' = "done" /\ fetch_ret' = None /\ fetch_exc' = fetch_exc
            /\ trace' = Append(trace, <<"sleep", attempt, "none">>)
            /\ UNCHANGED attempt
       ELSE fetch_pc' = "get" /\ attempt' = attempt + 1
            /\ trace' = Append(trace, <<"sleep", attempt, "none">>)
            /\ UNCHANGED <<fetch_ret, fetch_exc>>
    /\ UNCHANGED <<other_vars, curve_vars, batch_vars, retries, delay, scraper, response>>

\* "if attempt < retries: time.sleep(delay)", outside the try block, then
\* the next attempt; after the last attempt "return None".
Wait ==
    /\ fetch_pc = "wait"
    /\ IF attempt >= retries
       THEN fetch_pc' = "done" /\ fetch_ret' = None /\ fetch_exc' = fetch_exc
            /\ UNCHANGED <<attempt, trace>>
       ELSE IF delay < 0
       THEN fetch_pc' = "done" /\ fetch_exc' = "ValueError" /\ fetch_ret' = fetch_ret
            /\ UNCHANGED <<attempt, trace>>
       ELSE fetch_pc' = "get" /\ attempt' = attempt + 1
            /\ trace' = Append(trace, <<"sleep", attempt, "none">>)
            /\ UNCHANGED <<fetch_ret, fetch_exc>>
    /\ UNCHANGED <<other_vars, curve_vars, batch_vars, retries, delay, scraper, response>>

FetchNext == GetScraper \/ ScraperGet \/ ScraperPost \/ Wait

FetchSpec == FetchInit /\ [][FetchNext]_vars

(***************************************************************************)
(* get_bkam_forex_rates of modules/bkam_forex.py.                          *)
(***************************************************************************)
\* Lines of the downloaded CSV at most, and rows of the frame at most.
MaxForexLines == 2

LowerCase == <<"a", "d", "e", "l", "o", "r", "s", "u">>
UpperCase == <<"A", "D", "E", "L", "O", "R", "S", "U">>

\* s.upper(), on the letters of the input alphabet.
Upper(s) ==
    [i \in 1..Len(s) |->
        IF \E k \in 1..Len(LowerCase) : LowerCase[k] = s[i]
        THEN UpperCase[CHOOSE k \in 1..Len(LowerCase) : LowerCase[k] = s[i]]
        ELSE s[i]]

\* sub in s
Contains(s, sub) ==
    \E i \in 1..(Len(s) - Len(sub) + 1) : SubSeq(s, i, i + Len(sub) - 1) = sub

EURO == <<"E", "U", "R", "O">>
DOLLAR == <<"D", "O", "L", "L", "A", "R", " ", "U", ".", "S", ".", "A", ".">>

\* rates[key] = float(value), and the bare except that passes.
WithRate(rates, key, parsed) ==
    IF parsed.ok THEN [rates EXCEPT ![key] = Float(parsed.value)] ELSE rates

\* The loop over content.split('\n') (lines 48-73).
RECURSIVE ScanLines(_, _)
ScanLines(lines, rates) ==
    IF lines = <<>> THEN rates
    ELSE LET line == StripChars(Strip(Head(lines)), {"\""})
             parts == Split(line, ";")
             value == Strip(Replace(parts[2], ",", <<".">>))
         IN ScanLines(Tail(lines),
                IF line = <<>> THEN rates
                ELSE IF Contains(Upper(line), EURO)
                THEN (IF Len(parts) >= 2 THEN WithRate(rates, "EUR/MAD", ParseFloat(value))
                      ELSE rates)
                ELSE IF Contains(Upper(line), DOLLAR)
                THEN (IF Len(parts) >= 2 THEN WithRate(rates, "USD/MAD", ParseFloat(value))
                      ELSE rates)
                ELSE rates)

\* float(str(cell).replace(',', '.')): a missing cell is NaN, str gives
\* 'nan' and float gives NaN back.
CellFloat(cell) ==
    IF cell = NaN THEN [ok |-> TRUE, value |-> NaN]
    ELSE LET f == ParseFloat(Replace(StrOf(cell), ",", <<".">>))
         IN [ok |-> f.ok, value |-> Float(f.value)]

\* The loop over df.iterrows() (lines 94-99); a ValueError of float ends it
\* in the except of line 100 with the rates found so far.
RECURSIVE ScanFrame(_, _)
ScanFrame(rows, rates) ==
    IF rows = <<>> THEN rates
    ELSE LET first == Head(rows)[1]
             cell == CellFloat(Head(rows)[2])
             key == IF Contains(Upper(StrOf(first)), EURO) THEN "EUR/MAD" ELSE "USD/MAD"
         IN IF ~IsStr(first) THEN ScanFrame(Tail(rows), rates)
            ELSE IF ~Contains(Upper(StrOf(first)), EURO) /\ ~Contains(Upper(StrOf(first)), DOLLAR)
            THEN ScanFrame(Tail(rows), rates)
            ELSE IF ~cell.ok THEN rates
            ELSE ScanFrame(Tail(rows), [rates EXCEPT ![key] = cell.value])

\* Lines 114-120: the fallback values, where EUR/MAD is None.
ForexFallback(rates) ==
    IF rates["EUR/MAD"] = None
    THEN Dict(("EUR/MAD" :> Float(Percent(1082, 100)))
              @@ ("USD/MAD" :> Float(Percent(978, 100)))
              @@ ("NOTE" :> Message("FALLBACK")))
    ELSE Dict(rates)

\* get_bkam_forex_rates(): http is what requests.get meets, frame what
\* pd.read_csv makes of the saved file (or the OSError of saving it).
get_bkam_forex_rates(http, frame) ==
    LET rates == ("EUR/MAD" :> None) @@ ("USD/MAD" :> None)
    IN IF http.raises THEN ForexFallback(rates)
       ELSE IF http.status_code # 200 THEN Dict(rates)
       ELSE CHOOSE r \in {ForexFallback(IF simple["EUR/MAD"] # None \/ frame.exc # "none"
                                        THEN simple
                                        ELSE ScanFrame(frame.rows, simple)) :
                          simple \in {ScanLines(Split(http.content, "\n"), rates)}} : TRUE

ForexTitle == <<"C", "o", "u", "r", "s">>
ForexEuro == <<"1", " ", "E", "U", "R", "O", ";", "1", "0", ",", "7", "4", "9", "6">>
ForexEuroQuoted == <<"\"", "1", " ", "e", "u", "r", "o", "\"", ";", "\"", "1", "0", ",", "7", "4", "9", "6", "\"">>
ForexEuroEmpty == <<"1", " ", "E", "U", "R", "O", ";">>
ForexDollar == <<"1", " ", "D", "O", "L", "L", "A", "R", " ", "U", ".", "S", ".", "A", ".", ";", "9", ",", "1", "7", "2">>

ForexLines == {ForexTitle, ForexEuro, ForexEuroQuoted, ForexEuroEmpty, ForexDollar, LineBlank}

\* What requests.get meets: an exception, a status other than 200, or a CSV.
ForexResponses ==
    {[raises |-> TRUE, status_code |-> 0, content |-> <<>>],
     [raises |-> FALSE, status_code |-> 500, content |-> <<>>]}
    \cup {[raises |-> FALSE, status_code |-> 200, content |-> JoinLines(ls)] :
             ls \in UNION {[1..n -> ForexLines] : n \in 0..MaxForexLines}}

FrameRows ==
    {<<Str(<<"1", " ", "E", "U", "R", "O">>), Str(<<"1", "0", ",", "7", "4", "9", "6">>)>>,
     <<Str(<<"1", " ", "E", "U", "R", "O">>), NaN>>,
     <<Str(<<"1", " ", "E", "U", "R", "O">>), Str(RateMissing)>>,
     <<Str(<<"1", " ", "D", "O", "L", "L", "A", "R", " ", "U", ".", "S", ".", "A", ".">>), Float(Percent(9172, 1000))>>,
     <<NaN, NaN>>}

\* What the pandas attempt meets: the file cannot be saved, read_csv raises,
\* or a frame of rows.
ForexFrames ==
    {[exc |-> e, rows |-> <<>>] : e \in {"OSError", "ParserError"}}
    \cup {[exc |-> "none", rows |-> rows] :
             rows \in UNION {[1..n -> FrameRows] : n \in 0..MaxForexLines}}

ForexInit ==
    /\ NoCurve
    /\ NoBatch
    /\ NoFetch
    /\ forex_http \in ForexResponses
    /\ forex_frame \in ForexFrames
    /\ forex_ret = <<"unset">>
    /\ NoYahoo
    /\ NoScheduler

\* The one call of get_bkam_forex_rates().
GetForexRates ==
    /\ forex_ret = <<"unset">>
    /\ forex_ret' = get_bkam_forex_rates(forex_http, forex_frame)
    /\ UNCHANGED <<forex_http, forex_frame, curve_vars, batch_vars, fetch_vars, yahoo_vars, sched_vars>>

ForexNext == GetForexRates

ForexSpec == ForexInit /\ [][ForexNext]_vars

(***************************************************************************)
(* collect_data of modules/yahoo_markets.py.                               *)
(***************************************************************************)
\* The symbols of assets, in the order of the dict.
assets ==
    <<"BRENT", "WTI", "GAS", "GOLD", "SILVER", "COPPER", "SP500", "DJIA", "NASDAQ",
      "RUSSELL2000", "CAC40", "DAX", "FTSE100", "US10Y", "VIX", "BITCOIN", "EURUSD",
      "USDJPY", "GBPUSD", "USDCAD", "AUDUSD">>

Symbols == {assets[i] : i \in 1..Len(assets)}

\* The keys of investing_map.
investing_map ==
    {"BRENT", "WTI", "GOLD", "SILVER", "COPPER", "SP500", "DJIA", "NASDAQ", "US10Y",
     "VIX", "EURUSD", "USDJPY", "GBPUSD", "USDCAD", "AUDUSD", "BITCOIN"}

\* What yfinance has for a ticker: a closing price, a closing price that is
\* NaN, no history at all (both periods empty), or an exception at every
\* attempt.
Histories == {"close", "nan", "empty", "raises"}

\* get_from_yahoo(symbol, ticker): float(hist['Close'].iloc[-1]), or None
\* for an empty history and after the last failed attempt.
get_from_yahoo(history) ==
    IF history = "close" THEN Float(Percent(6036, 100))
    ELSE IF history = "nan" THEN NaN
    ELSE None

\* What an Investing.com page gives: the price element, no usable price
\* (another status than 200, no element, no float in it), or an exception.
Pages == {"price", "no price", "raises"}

\* get_from_investing(symbol)
get_from_investing(symbol, page) ==
    IF symbol \notin investing_map THEN None
    ELSE IF page = "price" THEN Float(Percent(6040, 100))
    ELSE None

\* What the three alternative APIs answer: a quote or not, a price or not,
\* and the rates of the exchange-rate API (EUR as <<numerator, denominator>>).
AlternativeResponses ==
    [alpha : {"quote", "fails"}, coingecko : {"price", "fails"},
     exchange : {[rates |-> TRUE, EUR |-> <<<<8, 10>>>>, JPY |-> TRUE],
                 [rates |-> TRUE, EUR |-> <<>>, JPY |-> TRUE],
                 [rates |-> TRUE, EUR |-> <<<<8, 10>>>>, JPY |-> FALSE],
                 [rates |-> TRUE, EUR |-> <<<<0, 1>>>>, JPY |-> TRUE],
                 [rates |-> FALSE, EUR |-> <<>>, JPY |-> FALSE]}]

\* The third block of get_alternative_data (lines 187-194): 1 / EUR raises
\* ZeroDivisionError for a rate of 0 and the bare except passes, before
\* USDJPY is written.
WithExchange(existing, exchange) ==
    IF ~exchange.rates THEN existing
    ELSE IF exchange.EUR # <<>> /\ exchange.EUR[1][1] = 0 THEN existing
    ELSE ("EURUSD" :> (IF exchange.EUR = <<>> THEN None
                       ELSE Float((exchange.EUR[1][2] * RateScale) \div exchange.EUR[1][1])))
         @@ ("USDJPY" :> (IF exchange.JPY THEN Float(Percent(150, 1)) ELSE None))
         @@ existing

\* get_alternative_data(existing_results)
get_alternative_data(existing_results, alt) ==
    WithExchange((IF alt.coingecko = "price" THEN ("BITCOIN" :> Float(Percent(9700, 1))) ELSE <<>>)
                 @@ (IF alt.alpha = "quote" THEN ("SP500" :> Float(Percent(59012, 100))) ELSE <<>>)
                 @@ existing_results,
                 alt.exchange)

\* What yfinance has for the 21 tickers: the same for all, or for all but one.
Markets ==
    {[s \in Symbols |-> IF s = odd THEN (IF base = "close" THEN "empty" ELSE "close") ELSE base] :
        base \in Histories, odd \in Symbols \cup {"none"}}

YahooInit ==
    /\ NoCurve
    /\ NoBatch
    /\ NoFetch
    /\ NoForex
    /\ NoScheduler
    /\ yfinance \in Markets
    /\ investing \in Pages
    /\ yahoo_pc = "yahoo"
    /\ asset_index = 1
    /\ yahoo_results = ("YAHOO_EXTRACTION_TIME" :> Message("isoformat"))
                 @@ ("YAHOO_SOURCE" :> Message("Yahoo Finance with Investing.com fallback"))
    /\ successful = 0
    /\ consulted = <<>>
    /\ yahoo_ret = <<"unset">>

\* The symbol at hand in the loop over assets.items().
Symbol == assets[asset_index]

\* The loop goes to the next symbol, or ends.
NextAsset ==
    /\ asset_index' = asset_index + 1
    /\ yahoo_pc' = IF asset_index = Len(assets) THEN "finish" ELSE "yahoo"

\* value = get_from_yahoo(symbol, ticker), and the else branch of line 147
\* for a value that is neither None nor NaN.
TryYahoo ==
    /\ yahoo_pc = "yahoo"
    /\ \E value \in {get_from_yahoo(yfinance[Symbol])} :
          /\ consulted' = Append(consulted, <<"yahoo", Symbol, value>>)
          /\ IF value = None \/ value = NaN
             THEN /\ yahoo_pc' = "investing"
                  /\ UNCHANGED <<asset_index, yahoo_results, successful>>
             ELSE /\ yahoo_results' = (Symbol :> value) @@ yahoo_results
                  /\ successful' = successful + 1
                  /\ NextAsset
    /\ UNCHANGED <<yfinance, investing, yahoo_ret, curve_vars, batch_vars, fetch_vars, forex_vars, sched_vars>>

\* value = get_from_investing(symbol) and lines 140-146.
TryInvesting ==
    /\ yahoo_pc = "investing"
    /\ \E value \in {get_from_investing(Symbol, investing)} :
          /\ consulted' = Append(consulted, <<"investing", Symbol, value>>)
          /\ yahoo_results' = (Symbol :> value) @@ yahoo_results
          /\ successful' = IF value # None THEN successful + 1 ELSE successful
          /\ NextAsset
    /\ UNCHANGED <<yfinance, investing, yahoo_ret, curve_vars, batch_vars, fetch_vars, forex_vars, sched_vars>>

\* Lines 152-159: get_alternative_data when fewer than half succeeded, and
\* the return.
ReturnResults ==
    /\ yahoo_pc = "finish"
    /\ \E alt \in AlternativeResponses :
          yahoo_ret' = IF 2 * successful < Len(assets)
                       THEN Dict(get_alternative_data(yahoo_results, alt))
                       ELSE Dict(yahoo_results)
    /\ yahoo_pc' = "done"
    /\ UNCHANGED <<yfinance, investing, asset_index, yahoo_results, successful, consulted,
                   curve_vars, batch_vars, fetch_vars, forex_vars, sched_vars>>

YahooNext == TryYahoo \/ TryInvesting \/ ReturnResults

YahooSpec == YahooInit /\ [][YahooNext]_vars

(***************************************************************************)
(* scheduler.py. A minute is one time.sleep(60); the day is shortened to   *)
(* MinutesPerDay minutes, with 07:00 at minute RunAt of each day.          *)
(***************************************************************************)
MinutesPerDay == 5
RunAt == 2

\* Minutes a run takes at most: the timeout of subprocess.run.
MaxRunMinutes == 2

\* Days the scheduler is followed.
SchedDays == 2

\* 07:00 of day d.
RunTime(d) == d * MinutesPerDay + RunAt

\* schedule.every().day.at("07:00"): the first 07:00 after t.
NextRunAfter(t) ==
    IF t % MinutesPerDay < RunAt THEN RunTime(t \div MinutesPerDay)
    ELSE RunTime(t \div MinutesPerDay + 1)

\* What a run meets: main.py exits with 0 or with another code, does not
\* exit within the timeout, or os.chdir fails.
RunOutcomes == {"returncode 0", "returncode 1", "TimeoutExpired", "FileNotFoundError"}

\* The minutes a run of that outcome takes.
RunMinutes(outcome) ==
    IF outcome = "TimeoutExpired" THEN {MaxRunMinutes}
    ELSE IF outcome = "FileNotFoundError" THEN {0}
    ELSE 0..MaxRunMinutes

\* Mutant of run_finance_bladi: only the return code is handled, the except
\* clause is missing.
run_finance_bladi_unguarded(outcome) ==
    IF outcome = "returncode 0" THEN [logged |-> "completed", exc |-> "none"]
    ELSE IF outcome = "returncode 1" THEN [logged |-> "failed", exc |-> "none"]
    ELSE [logged |-> "none", exc |-> outcome]

\* run_finance_bladi(): what it logs and the exception that leaves it.
run_finance_bladi(outcome) ==
    IF outcome = "returncode 0" THEN [logged |-> "completed", exc |-> "none"]
    ELSE IF outcome = "returncode 1" THEN [logged |-> "failed", exc |-> "none"]
    ELSE [logged |-> "Scheduler error", exc |-> "none"]

SchedInit ==
    /\ NoCurve
    /\ NoBatch
    /\ NoFetch
    /\ NoForex
    /\ NoYahoo
    /\ clock \in 0..(MinutesPerDay - 1)
    /\ sched_pc = "startup"
    /\ next_run = 0
    /\ run_log = <<>>

\* One synchronous call of run_finance_bladi(): the clock goes on by the
\* minutes it takes; an exception that leaves it ends main.
RunJob(kind, after) ==
    \E outcome \in RunOutcomes : \E minutes \in RunMinutes(outcome) :
        /\ run_log' = Append(run_log, [kind |-> kind, start |-> clock,
                                       end |-> clock + minutes, outcome |-> outcome])
        /\ clock' = clock + minutes
        /\ sched_pc' = IF run_finance_bladi(outcome).exc # "none" THEN "stopped" ELSE after

\* main() up to the loop: the job is scheduled and run at once.
StartUp ==
    /\ sched_pc = "startup"
    /\ next_run' = NextRunAfter(clock)
    /\ RunJob("startup", "pending")
    /\ UNCHANGED <<curve_vars, batch_vars, fetch_vars, forex_vars, yahoo_vars>>

\* schedule.run_pending(): the job runs when its next_run has come, and is
\* scheduled again from the time it ended.
RunPending ==
    /\ sched_pc = "pending"
    /\ IF clock >= next_run
       THEN /\ RunJob("scheduled", "sleep")
            /\ next_run' = NextRunAfter(clock')
       ELSE /\ sched_pc' = "sleep"
            /\ UNCHANGED <<clock, next_run, run_log>>
    /\ UNCHANGED <<curve_vars, batch_vars, fetch_vars, forex_vars, yahoo_vars>>

\* time.sleep(60)
Sleep ==
    /\ sched_pc = "sleep"
    /\ clock + 1 < SchedDays * MinutesPerDay
    /\ clock' = clock + 1
    /\ sched_pc' = "pending"
    /\ UNCHANGED <<next_run, run_log, curve_vars, batch_vars, fetch_vars, forex_vars, yahoo_vars>>

SchedNext == StartUp \/ RunPending \/ Sleep

SchedSpec == SchedInit /\ [][SchedNext]_vars

(***************************************************************************)
(* Properties.                                                             *)
(***************************************************************************)
QueryOps == {"get_rate_for_maturity", "get_standard_maturities"}

\* The last operation was a query and it returned.
Answered == last_call.op \in QueryOps /\ last_call.exc = "none"

\* The result dicts the last operation returned: one for
\* get_rate_for_maturity, three for get_standard_maturities.
QueryResults ==
    IF ~Answered THEN {}
    ELSE IF last_call.op = "get_rate_for_maturity" THEN {last_call.ret}
    ELSE {last_call.ret[k] : k \in DOMAIN last_call.ret}

NPoints == Len(treasury_data)
FirstPoint == treasury_data[1]
LastPoint == treasury_data[NPoints]

Abs(x) == IF x < 0 THEN 0 - x ELSE x

\* C1: on a curve of at least 2 points, a query whose target_days is <= the
\* first point's day count returns the first point's rate, and a query whose
\* target_days is >= the last point's day count returns the last point's rate.
C1_ClampAtBothEnds ==
    NPoints >= 2 =>
        \A r \in QueryResults :
            /\ r.target_days <= FirstPoint.days => r.rate = {FirstPoint.rate}
            /\ r.target_days >= LastPoint.days => r.rate = {LastPoint.rate}

\* The adjacent pairs (i, i + 1) that bracket t: p1.days < t <= p2.days. In a
\* sorted set there is exactly one when t lies strictly inside the range.
BracketPairs(t) ==
    {i \in 1..(NPoints - 1) :
        treasury_data[i].days < t /\ t <= treasury_data[i + 1].days}

\* v is a multiple of step nearest to num / den (den > 0).
IsNearestMultiple(v, num, den, step) ==
    v % step = 0 /\ 2 * Abs(v * den - num) <= step * den

\* Every query strictly inside the range returns the linear formula over its
\* bracketing pair, rounded to ndigits decimal places.
InteriorIsFormulaRounded(ndigits) ==
    NPoints >= 2 =>
        \A r \in QueryResults :
            (FirstPoint.days < r.target_days /\ r.target_days < LastPoint.days) =>
                \E i \in BracketPairs(r.target_days) :
                    LET p1 == treasury_data[i]
                        p2 == treasury_data[i + 1]
                        den == p2.days - p1.days
                        num == p1.rate * den
                                 + (r.target_days - p1.days) * (p2.rate - p1.rate)
                    IN \E v \in r.rate :
                          IsNearestMultiple(v, num, den, Pow10(RateDigits - ndigits))

\* C2 as stated: for target_days strictly between the first and last day
\* counts the rate is p1.rate + (t - p1.days) * (p2.rate - p1.rate) /
\* (p2.days - p1.days) over the bracketing pair, rounded to 3 decimal places.
C2_RoundedTo3Decimals == InteriorIsFormulaRounded(3)

\* C2 amended: the same formula, rounded to 4 decimal places.
C2_RoundedTo4Decimals == InteriorIsFormulaRounded(4)

\* A query strictly inside the range whose rate has a nonzero 4th decimal.
C2_Witness ==
    /\ NPoints >= 2
    /\ \E r \in QueryResults :
          /\ FirstPoint.days < r.target_days /\ r.target_days < LastPoint.days
          /\ \E v \in r.rate : v % Pow10(RateDigits - 3) # 0

\* C3 as stated: with exactly one point every query returns that point's
\* rate.
C3_OnePointAnswers ==
    NPoints = 1 => \A r \in QueryResults : r.rate = {FirstPoint.rate}

\* C3 amended: with exactly one point every query returns, with an absent
\* rate and the error 'Donnees insuffisantes'.
C3_OnePointInsufficient ==
    (NPoints = 1 /\ last_call.op \in QueryOps) =>
        /\ last_call.exc = "none"
        /\ \A r \in QueryResults :
              r.rate = {} /\ r.error = "Donnees insuffisantes"

\* The three standard queries were made on a one-point curve.
C3_Witness ==
    NPoints = 1 /\ Answered /\ last_call.op = "get_standard_maturities"

\* C4: after ingestion no two points of the working set have the same day
\* count.
C4_NoDuplicateDays ==
    loaded =>
        \A i, j \in 1..NPoints :
            i < j => treasury_data[i].days # treasury_data[j].days

\* C5: once load_from_csv has run, treasury_data is sorted ascending by day
\* count, in every later state (queries included).
C5_SortedByDays ==
    loaded =>
        \A i \in 1..(NPoints - 1) :
            treasury_data[i].days <= treasury_data[i + 1].days

\* A query was answered on a curve whose points came in another order in
\* the file.
C5_Witness ==
    /\ Answered
    /\ NPoints >= 2
    /\ CollectPoints(DataLines(csv_content), reference_date) # treasury_data

\* The fields of a data line.
RowFields(raw) == Parts(Strip(raw))

\* A data line of at least minFields fields whose date (field 1) and rate
\* (field 3) parse and whose maturity is not before the reference date.
RowIsValid(raw, minFields) ==
    LET f == RowFields(raw)
    IN /\ Len(f) >= minFields
       /\ ParseRate(f[3]).ok
       /\ ParseDate(f[1]).ok
       /\ ParseDate(f[1]).ordinal - reference_date >= 0

RowKey(raw) == <<RowFields(raw)[1], ParseRate(RowFields(raw)[3]).value>>

PointKey(p) == <<p.maturity_date_str, p.rate>>

\* When load_from_csv returns, treasury_data holds exactly the valid data
\* lines: as many points as valid lines, and each valid line's (date, rate)
\* as often as it occurs.
KeepsExactlyValidRows(minFields) ==
    last_call.op = "load_from_csv" =>
        LET rows == DataLines(csv_content)
            valid == {n \in 1..Len(rows) : RowIsValid(rows[n], minFields)}
            keys == {RowKey(rows[n]) : n \in valid}
        IN /\ NPoints = Cardinality(valid)
           /\ \A k \in keys :
                 Cardinality({n \in valid : RowKey(rows[n]) = k})
                   = Cardinality({i \in 1..NPoints : PointKey(treasury_data[i]) = k})

\* C6 as stated: load_from_csv keeps exactly the data lines whose date and
\* rate parse and whose days-to-maturity is >= 0.
C6_KeepsRowsThatParse == KeepsExactlyValidRows(3)

\* C6 amended: it keeps exactly the data lines of at least four fields whose
\* date and rate parse and whose days-to-maturity is >= 0; every other line
\* is dropped without ending the ingestion.
C6_KeepsFourFieldRowsThatParse == KeepsExactlyValidRows(4)

\* A line of four fields that does not parse, between two valid lines that
\* were both ingested.
C6_Witness ==
    /\ last_call.op = "load_from_csv"
    /\ NPoints >= 2
    /\ LET rows == DataLines(csv_content)
       IN \E n \in 2..(Len(rows) - 1) :
             /\ Len(RowFields(rows[n])) >= 4
             /\ ~RowIsValid(rows[n], 4)
             /\ RowIsValid(rows[n - 1], 4)
             /\ RowIsValid(rows[n + 1], 4)

\* C7: with zero points the three standard queries return an absent rate
\* and get_standard_maturities raises nothing.
C7_EmptyCurveUnavailable ==
    (NPoints = 0 /\ last_call.op = "get_standard_maturities") =>
        /\ last_call.exc = "none"
        /\ DOMAIN last_call.ret = {"BT2Y", "BT5Y", "BT10Y"}
        /\ \A k \in DOMAIN last_call.ret : last_call.ret[k].rate = {}

\* The standard queries were made after a load that left no point.
C7_Witness ==
    loaded /\ NPoints = 0 /\ last_call.op = "get_standard_maturities"

\* The points at 730, 1825 and 3650 days with rates 2.50, 2.75 and 3.10.
IsStandardCurve ==
    /\ NPoints = 3
    /\ [i \in 1..3 |-> treasury_data[i].days] = <<730, 1825, 3650>>
    /\ [i \in 1..3 |-> treasury_data[i].rate]
         = <<Percent(250, 100), Percent(275, 100), Percent(310, 100)>>

\* C8 as stated: on that curve the 2Y, 5Y and 10Y queries return exactly
\* 2.50, 2.75 and 3.10.
C8_StandardCurveUnchanged ==
    (IsStandardCurve /\ last_call.op = "get_standard_maturities") =>
        /\ last_call.exc = "none"
        /\ last_call.ret.BT2Y.rate = {Percent(250, 100)}
        /\ last_call.ret.BT5Y.rate = {Percent(275, 100)}
        /\ last_call.ret.BT10Y.rate = {Percent(310, 100)}

\* C8 amended: on that curve the 2Y and 10Y queries return 2.50 and 3.10,
\* and the 5Y query, made at 1826 days, returns 2.7502, interpolated between
\* the points at 1825 and 3650 days.
C8_StandardCurveFiveYearInterpolated ==
    (IsStandardCurve /\ last_call.op = "get_standard_maturities") =>
        /\ last_call.exc = "none"
        /\ last_call.ret.BT2Y.rate = {Percent(250, 100)}
        /\ last_call.ret.BT5Y.rate = {Percent(27502, 10000)}
        /\ last_call.ret.BT5Y.target_days = 1826
        /\ last_call.ret.BT5Y.method = "Interpolation lineaire"
        /\ last_call.ret.BT5Y.days_before = 1825
        /\ last_call.ret.BT5Y.days_after = 3650
        /\ last_call.ret.BT10Y.rate = {Percent(310, 100)}

\* The standard queries were made on that curve.
C8_Witness ==
    IsStandardCurve /\ Answered /\ last_call.op = "get_standard_maturities"

\* C9: target_days is floor(target_years * 365.25), so that the standard
\* tenors are queried at 730, 1826 and 3652 days.
C9_TargetDaysIsFloor ==
    /\ \A r \in QueryResults :
          LET num == r.target_years[1] * 1461
              den == r.target_years[2] * 4
          IN r.target_days * den <= num /\ num < (r.target_days + 1) * den
    /\ (Answered /\ last_call.op = "get_standard_maturities") =>
          /\ last_call.ret.BT2Y.target_days = 730
          /\ last_call.ret.BT5Y.target_days = 1826
          /\ last_call.ret.BT10Y.target_days = 3652

\* A query of 3 years (1095.75 days) was made at 1095 days.
C9_Witness ==
    \E r \in QueryResults : r.target_years = <<3, 1>> /\ r.target_days = 1095

\* C10: when two adjacent points that bracket the target have the same day
\* count, the query returns the rate of the first of the two, and no query
\* divides by zero.
C10_EqualDaysReturnFirstOfPair ==
    /\ last_call.op \in QueryOps => last_call.exc # "ZeroDivisionError"
    /\ \A r \in QueryResults :
          \A i \in 1..(NPoints - 1) :
              (/\ treasury_data[i].days = treasury_data[i + 1].days
               /\ treasury_data[i].days = r.target_days)
                  => r.rate = {treasury_data[i].rate}

\* The results answered by interpolation.
Interpolated == {r \in QueryResults : r.rate # {} /\ r.method = "Interpolation lineaire"}

\* C11: a result answered by interpolation carries the method and both
\* bracketing points (dates, rates, day counts); the two points are adjacent
\* in the sorted set and p1.days <= target_days <= p2.days.
C11_InterpolatedCarriesAdjacentBracket ==
    \A r \in Interpolated :
        \E i \in 1..(NPoints - 1) :
            LET p1 == treasury_data[i]
                p2 == treasury_data[i + 1]
            IN /\ r.point_before = p1.maturity_date_str
               /\ r.point_after = p2.maturity_date_str
               /\ r.rate_before = p1.rate /\ r.rate_after = p2.rate
               /\ r.days_before = p1.days /\ r.days_after = p2.days
               /\ p1.days <= r.target_days /\ r.target_days <= p2.days

\* A query was answered by interpolation between the second and the third
\* of three points.
C11_Witness ==
    /\ NPoints = 3
    /\ \E r \in Interpolated : r.days_before = treasury_data[2].days
                                /\ r.days_before < r.target_days

\* C12: a query leaves treasury_data and reference_date as they were, and
\* two successive queries with the same target (on the point set the first
\* one left) return the same result: rate, method and the rest.
C12_QueriesArePure ==
    [][(last_call'.op \in QueryOps) =>
          /\ treasury_data' = treasury_data
          /\ reference_date' = reference_date
          /\ \A r \in QueryResults : \A s \in QueryResults' :
                r.target_years = s.target_years => r = s]_vars

\* The 2-year query was answered by get_rate_for_maturity on a curve of at
\* least two points; get_standard_maturities asks it too.
C12_Witness ==
    /\ NPoints >= 2
    /\ Answered
    /\ last_call.op = "get_rate_for_maturity"
    /\ last_call.target_years = standard_maturities.BT2Y

\* C15: get_standard_maturities returns, whatever the curve holds, exactly
\* three results, keyed BT2Y, BT5Y and BT10Y, for 2, 5 and 10 years.
C15_AlwaysThreeStandardResults ==
    last_call.op = "get_standard_maturities" =>
        /\ last_call.exc = "none"
        /\ DOMAIN last_call.ret = {"BT2Y", "BT5Y", "BT10Y"}
        /\ last_call.ret.BT2Y.target_years = <<2, 1>>
        /\ last_call.ret.BT5Y.target_years = <<5, 1>>
        /\ last_call.ret.BT10Y.target_years = <<10, 1>>

\* The standard queries were made on a curve with two points of the same
\* day count.
C15_Witness ==
    /\ last_call.op = "get_standard_maturities"
    /\ \E i \in 1..(NPoints - 1) : treasury_data[i].days = treasury_data[i + 1].days

\* The downloads that leave the treasury component without a curve, at
\* every clock reading.
EmptyCurveFetches ==
    {f \in TreasuryFetches :
        \A t \in 0..MaxNow : download_and_load(f, DateOrdinal(t)).treasury_data = <<>>}

\* The cells of BT2Y, BT5Y and BT10Y in a processed row.
TreasuryCells(row) == {row[3], row[4], row[5]}

\* C13: when ingestion yields an empty curve, the row the run exports has a
\* rate in each of its BT2Y, BT5Y and BT10Y cells (the fallback triple).
C13_EmptyCurveRowHasFallbackRates ==
    (download \in EmptyCurveFetches /\ processed_data # <<>>)
        => \A cell \in TreasuryCells(processed_data) : IsFloat(cell)

\* The downloads on which download_and_load fails (download error, non-200
\* status, missing CSV link, no valid line), at every clock reading.
FailingFetches ==
    {f \in TreasuryFetches : \A t \in 0..MaxNow : ~download_and_load(f, DateOrdinal(t)).ret}

Collected == pc \in {"process", "export", "save", "done"} /\ attempted # <<>>

\* C14: when the treasury download fails, the treasury module still returns
\* a result (it is among the collected data and not among the errors), every
\* module is attempted in the order of MODULES, and a run that has ended has
\* processed a row and called the export.
C14_TreasuryFailureNeverAborts ==
    (download \in FailingFetches /\ Collected)
        => /\ attempted = MODULES
           /\ "bkam_treasury" \in DOMAIN raw_data
           /\ \A i \in 1..Len(errors) : errors[i][1] # "bkam_treasury"
           /\ pc = "done" => (processed_data # <<>> /\ last_export.op = program)

C14_Witness ==
    /\ download \in FailingFetches
    /\ pc = "done"
    /\ errors # <<>>
    /\ attempted = MODULES
    /\ last_export.op = program
    /\ "error" \in DOMAIN raw_data["bkam_treasury"][2]

\* The timestamped rows of a worksheet written on the day of clock reading t.
RunRows(ws, t) ==
    {i \in 1..Len(ws) :
        /\ ws[i] # <<>>
        /\ \E u \in 0..MaxNow : DayOf(u) = DayOf(t) /\ ws[i][1] = TimestampText(u)}

\* C16: however often main.py runs on a day, the worksheet has at most one
\* row written on that day.
C16_SameDayRunsLeaveOneRow ==
    program = "main" => \A t \in 0..MaxNow : Cardinality(RunRows(worksheet, t)) <= 1

\* C17: a row is processed only after the collection and before any export
\* and save; the export is called only with a processed row and before the
\* save; files are written only after the export was called. A run that
\* called the export and ended without an exception of save has written its
\* backup, also when the export failed; main returns True only if the export
\* returned True.
C17_StepsInOrder ==
    [][/\ processed_data' # processed_data
            => (attempted # <<>> /\ last_export.op = "none" /\ files = {})
       /\ last_export' # last_export => (processed_data # <<>> /\ files = {})
       /\ files' # files => last_export.op # "none"
       /\ (pc' = "done" /\ last_export'.op # "none" /\ caught' = "none") => files' # {}
       /\ main_ret' = "True" => (export_success' = "True" /\ last_export'.ret)]_vars

C17_Witness ==
    /\ pc = "done"
    /\ export_success = "False"
    /\ last_export.op = program
    /\ files # {}
    /\ main_ret = "False"

\* At most one data row (row 2 and below) for each date of the clock.
OneRowPerDate(ws) ==
    \A t \in 0..MaxNow : Cardinality(RowsOfDate(ws, DateText(t))) <= 1

\* C18: an export of mainold.py or of export_unified_data that succeeds never
\* aims update_cell at row 1, and leaves at most one data row per date when
\* there was at most one per date before.
C18_UpsertByDate ==
    (last_export.op \in {"mainold", "google_sheets"} /\ last_export.ret)
        => /\ last_export.target # 1
           /\ OneRowPerDate(last_export.before) => OneRowPerDate(last_export.worksheet)

\* The worksheet begins with the cell 'Date'.
BeginsWithDate(ws) == ws # <<>> /\ ws[1] # <<>> /\ ws[1][1] = <<"D", "a", "t", "e">>

IsRequest(e) == e[1] \in {"GET", "POST"}

\* C21: every request and sleep belongs to an attempt in 1..retries; a GET
\* is the first thing of its attempt (the first entry of all, or right after
\* the sleep of the attempt before) and every attempt begun has made it; a
\* POST comes right after a GET of the same attempt answered 403; a 200
\* answer is the last entry and ends the call; a sleep comes after a
\* request of an attempt that is not the last, and the GET of the next
\* attempt follows it.
C21_AttemptsAndWaits ==
    /\ \A i \in 1..Len(trace) : trace[i][2] \in 1..retries
    /\ \A i \in 1..Len(trace) :
          trace[i][1] = "GET"
              => (IF trace[i][2] = 1 THEN i = 1
                  ELSE i > 1 /\ trace[i - 1] = <<"sleep", trace[i][2] - 1, "none">>)
    /\ \A a \in 1..attempt :
          (a < attempt \/ fetch_pc \notin {"start", "get"})
              => \E i \in 1..Len(trace) : trace[i][1] = "GET" /\ trace[i][2] = a
    /\ \A i \in 1..Len(trace) :
          trace[i][1] = "POST"
              => (i > 1 /\ trace[i - 1] = <<"GET", trace[i][2], "403">>)
    /\ \A i \in 1..Len(trace) :
          trace[i][3] = "200"
              => (i = Len(trace) /\ fetch_pc = "done" /\ fetch_ret = Response("200"))
    /\ \A i \in 1..Len(trace) :
          trace[i][1] = "sleep"
              => /\ trace[i][2] < retries
                 /\ i > 1 /\ IsRequest(trace[i - 1]) /\ trace[i - 1][2] = trace[i][2]
                 /\ IF i = Len(trace) THEN fetch_pc = "get"
                    ELSE trace[i + 1][1] = "GET" /\ trace[i + 1][2] = trace[i][2] + 1

C21_Witness ==
    /\ fetch_pc = "done"
    /\ fetch_ret = None
    /\ retries >= 2
    /\ attempt = retries
    /\ \E i \in 1..Len(trace) : trace[i][1] = "POST"
    /\ \E i \in 1..Len(trace) : trace[i][1] = "sleep"

\* C23: in a run of main.py without a credentials file no module is
\* attempted, nothing is collected or processed, the export is not called,
\* the worksheet is as it was and no file is written; the run ends with
\* False.
C23_NoCredentialsNothingRuns ==
    (program = "main" /\ ~credentials)
        => /\ pc \in {"start", "done"}
           /\ attempted = <<>> /\ raw_data = <<>> /\ errors = <<>>
           /\ processed_data = <<>>
           /\ last_export.op = "none"
           /\ worksheet \in {<<>>, <<COLUMNS>>}
           /\ files = {}
           /\ pc = "done" => main_ret = "False"

C23_Witness ==
    /\ program = "main"
    /\ ~credentials
    /\ pc = "done"
    /\ main_ret = "False"
    /\ attempted = <<>>

ObservedRates == {treasury_data[i].rate : i \in 1..NPoints}

\* C28: on a curve of at least 2 points every returned rate lies between the
\* smallest and the largest observed rate, and an interpolated rate lies
\* between the rates of its two bracketing points.
C28_NoExtrapolation ==
    NPoints >= 2 =>
        /\ \A r \in QueryResults : \A x \in r.rate :
               /\ \E lo \in ObservedRates : lo <= x
               /\ \E hi \in ObservedRates : x <= hi
        /\ \A r \in Interpolated : \A x \in r.rate :
               \/ r.rate_before <= x /\ x <= r.rate_after
               \/ r.rate_after <= x /\ x <= r.rate_before

\* An interpolated answer strictly between two different bracket rates, on a
\* curve with a further point after the bracket.
C28_Witness ==
    /\ NPoints >= 3
    /\ \E r \in Interpolated : \E x \in r.rate :
           /\ r.rate_before < x /\ x < r.rate_after
           /\ r.days_after < LastPoint.days

Tenors == {"BT2Y", "BT5Y", "BT10Y"}

\* What main.py's collection holds of get_bkam_treasury_official's return.
OfficialReturn == raw_data["bkam_treasury"][2]

\* C27: get_bkam_treasury_official raises nothing, and the dict it returns
\* has BT2Y, BT5Y and BT10Y either all three numbers or all three None.
C27_AllThreeOrNone ==
    (program = "main" /\ download \in TreasuryFetches /\ Collected) =>
        /\ \A i \in 1..Len(errors) : errors[i][1] # "bkam_treasury"
        /\ "bkam_treasury" \in DOMAIN raw_data
        /\ IsDict(raw_data["bkam_treasury"])
        /\ Tenors \subseteq DOMAIN OfficialReturn
        /\ \/ \A k \in Tenors : IsFloat(OfficialReturn[k])
           \/ \A k \in Tenors : OfficialReturn[k] = None

\* A run whose curve loaded a single point: the unavailable outcome on all
\* three tenors although the download worked.
C27_Witness ==
    /\ program = "main" /\ Collected
    /\ download \in TreasuryFetches \ FailingFetches
    /\ \A k \in Tenors : OfficialReturn[k] = None

\* The call of get_bkam_forex_rates has returned rates.
ForexReturned == forex_ret # <<"unset">>

\* C22: get_bkam_forex_rates never returns a result whose EUR/MAD is None;
\* whenever nothing could be extracted (the request failed or was answered
\* with another status than 200) it returns the fallback rates, 10.82 and
\* 9.78, tagged NOTE = 'FALLBACK'.
C22_FallbackNeverNone ==
    ForexReturned =>
        /\ forex_ret[2]["EUR/MAD"] # None
        /\ (forex_http.raises \/ forex_http.status_code # 200) =>
               forex_ret = ForexFallback(("EUR/MAD" :> None) @@ ("USD/MAD" :> None))

\* What the named source returned for the symbol, as far as it was called.
Returned(source, symbol) ==
    {consulted[j][3] : j \in {k \in 1..Len(consulted) :
                                 consulted[k][1] = source /\ consulted[k][2] = symbol}}

\* C24: Investing.com is consulted for a symbol only right after Yahoo
\* returned None or NaN for that symbol, and the dict collect_data returns
\* holds an entry for each of the 21 symbols: a number, or None when both
\* sources failed.
C24_InvestingAfterYahooAndAllSymbols ==
    /\ \A j \in 1..Len(consulted) :
          consulted[j][1] = "investing" =>
              /\ j > 1
              /\ consulted[j - 1][1] = "yahoo"
              /\ consulted[j - 1][2] = consulted[j][2]
              /\ consulted[j - 1][3] \in {None, NaN}
    /\ yahoo_pc = "done" =>
          /\ Len(assets) = 21
          /\ \A s \in Symbols :
                /\ s \in DOMAIN yahoo_ret[2]
                /\ \/ IsFloat(yahoo_ret[2][s])
                   \/ /\ yahoo_ret[2][s] = None
                      /\ Returned("yahoo", s) \subseteq {None, NaN}
                      /\ Returned("investing", s) = {None}

\* The days whose 07:00 came after the scheduler started.
DaysAfterStart == {d \in 0..SchedDays : run_log # <<>> /\ run_log[1].start < RunTime(d)}

\* The scheduled runs of day d: those that began at its 07:00, or as soon
\* after it as the run in progress had ended.
RunsOfDay(d) ==
    {k \in 2..Len(run_log) :
        RunTime(d) <= run_log[k].start /\ run_log[k].start <= RunTime(d) + MaxRunMinutes}

====
